---- MODULE Spec2Model ----
(***************************************************************************)
(* quick-poll-api: polls, options, individual votes and edit history kept  *)
(* in a relational store, and the request handlers that mutate them        *)
(* (create_poll, crud_vote_on_poll behind vote_on_poll_endpoint,           *)
(* update_poll, delete_poll_endpoint).                                     *)
(*                                                                         *)
(* The committed store is the variable db.  A worker receives a request    *)
(* (Receive), runs its handler, and returns the response (Respond).  Under *)
(* Spec one request is in flight at a time and a handler is one step.      *)
(* Spec creates one poll; SpecTwo starts with two polls created and casts   *)
(* votes on them.  Under SpecConc two vote requests are in flight and a    *)
(* handler is the sequence of SQL statements its session emits (READ       *)
(* COMMITTED: every statement reads the rows committed at that moment; the *)
(* flush and the COMMIT of a session are one step).  SpecUpd starts with   *)
(* one poll and sends it update requests over all option lists; SpecLife   *)
(* creates, votes on, updates, reads and deletes up to two polls.  Under   *)
(* SpecRace one worker handles vote requests while the other handles       *)
(* update requests, each split at its query and its commit.                *)
(***************************************************************************)
EXTENDS Integers, Sequences, FiniteSets, TLC

\* ------------------------------------------------------------------ bounds
\* poll_option rows ever inserted (serial ids are never reused)
MaxOptions == 3
\* individual_vote rows ever inserted
MaxVotes == 3
\* voter tokens ever minted
MaxTokens == 2
\* poll_edit_history rows ever inserted
MaxHist == 2

\* ------------------------------------------------------------ value model
\* Python None / SQL NULL, for ids and for strings
NoId == 0
None == "None"

\* uuid4(): the n-th poll id; never repeats
PollId(n) == n
\* generate_voter_token(): the n-th token minted; never repeats
VoterToken(n) == IF n = 1 THEN "t1" ELSE IF n = 2 THEN "t2" ELSE IF n = 3 THEN "t3" ELSE "t4"
\* generate_modification_code(): 8 random characters; poll.modification_code is unique
ModificationCode(n) == IF n = 1 THEN "Code0001" ELSE IF n = 2 THEN "Code0002" ELSE "Code0003"
\* generate_random_display_name()
GeneratedNames == {"Quick Fox"}

\* voting_security_level: ^(none|cookie_basic|cookie_strict|ip_address)$
SecurityLevels == {"none", "cookie_basic", "cookie_strict", "ip_address"}

\* str.lower() on the option texts the model uses
Lower(t) == CASE t = "A" -> "a" [] t = "B" -> "b" [] t = "C" -> "c" [] OTHER -> t

\* Python truthiness of Optional[str]: None and "" are falsy
Truthy(s) == s # None /\ s # ""

Max(a, b) == IF a >= b THEN a ELSE b

\* the rows of a table (a function id -> row) selected by a predicate on the id
Restrict(f, S) == [x \in S |-> f[x]]
Without(f, S) == [x \in (DOMAIN f) \ S |-> f[x]]

\* a set of integers as the ascending sequence of its elements
RECURSIVE Ascending(_)
Ascending(S) ==
    IF S = {} THEN << >>
    ELSE LET m == CHOOSE x \in S : \A y \in S : x <= y
         IN  <<m>> \o Ascending(S \ {m})

\* ---------------------------------------------------------------- the store
VARIABLES db, gen, pc, req, resp, pre, sess

vars == <<db, gen, pc, req, resp, pre, sess>>

Workers == {"w1", "w2"}

\* an empty table
EmptyTable == [x \in {} |-> x]

\* the store after the migrations, with no row
EmptyDb ==
    [ poll |-> EmptyTable,          \* id -> Poll
      poll_option |-> EmptyTable,   \* id -> PollOption
      individual_vote |-> EmptyTable, \* id -> IndividualVote
      poll_edit_history |-> EmptyTable, \* id -> PollEditHistory
      option_seq |-> 0,             \* poll_option.id serial
      vote_seq |-> 0,               \* individual_vote.id serial
      history_seq |-> 0 ]           \* poll_edit_history.id serial

\* the generators outside the store: uuid4 for poll ids and voter tokens
EmptyGen == [polls |-> 0, tokens |-> 0]

\* ids of the options of a poll (Poll.options), and of its votes
OptionsOf(d, pid) == {o \in DOMAIN d.poll_option : d.poll_option[o].poll_id = pid}
VotesOf(d, pid) == {v \in DOMAIN d.individual_vote : d.individual_vote[v].poll_id = pid}
HistoryOf(d, pid) == {h \in DOMAIN d.poll_edit_history : d.poll_edit_history[h].poll_id = pid}
\* PollOption.individual_votes_on_option
VotesOnOption(d, o) == {v \in DOMAIN d.individual_vote : d.individual_vote[v].option_id = o}
\* select(IndividualVote).where(poll_id == pid, voter_token == tok)
VotesOfToken(d, pid, tok) ==
    {v \in VotesOf(d, pid) : d.individual_vote[v].voter_token = tok}

\* a response: the exception's code and detail (code "ok" when none was raised),
\* the option id the detail names, the token crud_vote_on_poll returned and the
\* cookie the endpoint set
Response(code, detail) ==
    [code |-> code, detail |-> detail, option_id |-> NoId, poll_id |-> NoId,
     new_token |-> None, set_cookie |-> None]
NoResponse == Response("pending", None)
Ok == Response("ok", None)

\* ------------------------------------------------------------- create_poll
\* PollCreate: 2..20 options, texts unique case-insensitively
\* (check_unique_option_texts)
PollCreateValid(data) ==
    /\ Len(data.options) >= 2
    /\ Len(data.options) <= 20
    /\ \A i, j \in 1..Len(data.options) :
          i < j => Lower(data.options[i]) # Lower(data.options[j])

\* the poll_option rows of create_poll's second commit
NewOptionRows(d, pid, texts) ==
    [o \in (d.option_seq + 1)..(d.option_seq + Len(texts)) |->
        [poll_id |-> pid, text |-> texts[o - d.option_seq], votes |-> 0]]

\* create_poll: the poll row is committed first, its options in a second commit.
\* fail: the commit at which the store fails ("none": at neither)
create_poll(d, g, data, name, fail) ==
    LET pid == PollId(g.polls + 1)
        creator == IF Truthy(data.creator_display_name)
                   THEN data.creator_display_name ELSE name
        row == [question |-> data.question,
                creator_display_name |-> creator,
                allow_multiple_selections |-> data.allow_multiple_selections,
                voting_security_level |-> data.voting_security_level,
                is_public |-> data.is_public,
                modification_code |-> ModificationCode(g.polls + 1),
                updated_at |-> 0]
        d1 == [d EXCEPT !.poll = (pid :> row) @@ @]
        d2 == [d1 EXCEPT !.poll_option = NewOptionRows(d, pid, data.options) @@ @,
                         !.option_seq = @ + Len(data.options)]
        g1 == [g EXCEPT !.polls = @ + 1]
    IN  IF fail = "poll_commit"
        THEN [db |-> d, gen |-> g,
              resp |-> Response("DB_CREATE_POLL_ERROR", None)]
        ELSE IF fail = "options_commit"
        THEN [db |-> d1, gen |-> g1,
              resp |-> [Response("DB_CREATE_OPTIONS_ERROR", None) EXCEPT !.poll_id = pid]]
        ELSE [db |-> d2, gen |-> g1,
              resp |-> [Response("ok", None) EXCEPT !.poll_id = pid]]

\* ------------------------------------------------------- crud_vote_on_poll
\* A vote request's session (one SQLAlchemy Session, autoflush off):
\*   poll       the Poll row as the endpoint's first query read it (the identity
\*              map keeps these attributes for the rest of the session)
\*   orig       option id -> votes as first read into the identity map
\*   loaded     the ids of poll.options
\*   prev       vote id -> option id of previous_individual_votes
\*   token, new_token   token_to_use, newly_generated_token
\*   resp       the response once the handler has ended, NoResponse before
VoteSession(pid, sel, cookie) ==
    [poll_id |-> pid, selected_options |-> sel, cookie |-> cookie,
     poll |-> None, existing_voter_token |-> None, loaded |-> {},
     orig |-> EmptyTable, prev |-> EmptyTable,
     token |-> None, new_token |-> None, resp |-> NoResponse]

\* a variant of VoteBegin that passes the cookie's token on at every level
VoteBeginKeepsCookie(d, s) ==
    IF s.poll_id \notin DOMAIN d.poll
    THEN [s EXCEPT !.resp = Response("POLL_NOT_FOUND", None)]
    ELSE [s EXCEPT !.poll = d.poll[s.poll_id], !.existing_voter_token = s.cookie]

\* vote_on_poll_endpoint up to the call of crud_vote_on_poll: the security-level
\* query; a poll of level "none" drops the cookie's token
VoteBegin(d, s) ==
    IF s.poll_id \notin DOMAIN d.poll
    THEN [s EXCEPT !.resp = Response("POLL_NOT_FOUND", None)]
    ELSE [s EXCEPT !.poll = d.poll[s.poll_id],
                   !.existing_voter_token =
                        IF d.poll[s.poll_id].voting_security_level = "none"
                        THEN None ELSE s.cookie]

\* the first selected id that is not an option of the poll, NoId when all are
RECURSIVE FirstInvalid(_, _)
FirstInvalid(sel, valid) ==
    IF sel = << >> THEN NoId
    ELSE IF Head(sel) \notin valid THEN Head(sel)
    ELSE FirstInvalid(Tail(sel), valid)

\* the validation of crud_vote_on_poll, in the code's order
VoteValidation(allow_multiple, valid, sel) ==
    IF valid = {}
    THEN Response("POLL_OPTIONS_UNEXPECTEDLY_NONE", None)
    ELSE IF FirstInvalid(sel, valid) # NoId
    THEN [Response("INVALID_VOTE", "option_not_valid")
            EXCEPT !.option_id = FirstInvalid(sel, valid)]
    ELSE IF ~allow_multiple /\ Len(sel) > 1
    THEN Response("INVALID_VOTE", "multiple_not_allowed")
    ELSE IF sel = << >>
    THEN Response("INVALID_VOTE", "no_options_selected")
    ELSE Ok

\* crud_vote_on_poll's joinedload query and its validation
VoteLoad(d, s) ==
    IF s.poll_id \notin DOMAIN d.poll
    THEN [s EXCEPT !.resp = Response("POLL_NOT_FOUND", None)]
    ELSE LET ids == OptionsOf(d, s.poll_id)
             v == VoteValidation(s.poll.allow_multiple_selections, ids,
                                 s.selected_options)
         IN  [s EXCEPT !.loaded = ids,
                       !.orig = [o \in ids |-> d.poll_option[o].votes],
                       !.resp = IF v = Ok THEN NoResponse ELSE v]

\* a variant of VoteFindPrevious whose select does not filter by poll
VoteFindPreviousAnyPoll(d, g, s) ==
    IF Truthy(s.existing_voter_token)
    THEN LET rows == {v \in DOMAIN d.individual_vote :
                        d.individual_vote[v].voter_token = s.existing_voter_token}
             got == {d.individual_vote[v].option_id : v \in rows}
                        \cap ((DOMAIN d.poll_option) \ s.loaded)
         IN  [s EXCEPT !.token = s.existing_voter_token,
                       !.prev = [v \in rows |-> d.individual_vote[v].option_id],
                       !.orig = [o \in got |-> d.poll_option[o].votes] @@ @]
    ELSE [s EXCEPT !.token = VoterToken(g.tokens + 1),
                   !.new_token = VoterToken(g.tokens + 1)]

\* the select of the token's previous votes on the poll, and db.get of each
\* one's option (read from the store when the identity map does not hold it);
\* without a token, a new one is minted
VoteFindPrevious(d, g, s) ==
    IF Truthy(s.existing_voter_token)
    THEN LET rows == VotesOfToken(d, s.poll_id, s.existing_voter_token)
             got == {d.individual_vote[v].option_id : v \in rows}
                        \cap ((DOMAIN d.poll_option) \ s.loaded)
         IN  [s EXCEPT !.token = s.existing_voter_token,
                       !.prev = [v \in rows |-> d.individual_vote[v].option_id],
                       !.orig = [o \in got |-> d.poll_option[o].votes] @@ @]
    ELSE [s EXCEPT !.token = VoterToken(g.tokens + 1),
                   !.new_token = VoterToken(g.tokens + 1)]

\* whether the session mints a token
VoteMints(s) == ~Truthy(s.existing_voter_token)

\* a variant of DecrementVotes without the clamp at 0
DecrementVotesUnclamped(votes) == votes - 1

\* option_to_decrement.votes = max(0, option_to_decrement.votes - 1)
DecrementVotes(votes) == Max(0, votes - 1)

\* a variant of ClearPrevious that leaves the previous options' counters alone
ClearPreviousKept(cached, options) == cached

\* the loop over previous_individual_votes (options: the seq of their option ids)
RECURSIVE ClearPrevious(_, _)
ClearPrevious(cached, options) ==
    IF options = << >> THEN cached
    ELSE LET o == Head(options)
         IN  ClearPrevious(
                IF o \in DOMAIN cached
                THEN [cached EXCEPT ![o] = DecrementVotes(@)] ELSE cached,
                Tail(options))

\* a variant of IncrementVotes that loses the increment
IncrementVotesLost(votes) == votes

\* option_to_increment.votes += 1
IncrementVotes(votes) == votes + 1

\* a variant of AddSelected that records the ballots without counting them
AddSelectedUncounted(cached, sel, loaded) == cached

\* the loop over vote_request.selected_options (options_map: poll.options)
RECURSIVE AddSelected(_, _, _)
AddSelected(cached, sel, loaded) ==
    IF sel = << >> THEN cached
    ELSE LET o == Head(sel)
         IN  AddSelected(
                IF o \in loaded
                THEN [cached EXCEPT ![o] = IncrementVotes(@)] ELSE cached,
                Tail(sel), loaded)

\* the votes attribute of every option in the identity map when commit is called
VoteCached(s) ==
    AddSelected(
        ClearPrevious(s.orig, [i \in 1..Cardinality(DOMAIN s.prev) |->
                                  s.prev[Ascending(DOMAIN s.prev)[i]]]),
        s.selected_options, s.loaded)

\* a variant of UniqueVoteOk: a table without the unique constraint
UniqueVoteUnchecked(d, pid, sel, tok) == TRUE

\* a variant of UniqueVoteOk that compares the inserted rows with the rows of
\* the store only, not with each other
UniqueVoteStoredOnly(d, pid, sel, tok) ==
    \A i \in 1..Len(sel) : \A v \in DOMAIN d.individual_vote :
        ~(/\ d.individual_vote[v].poll_id = pid
          /\ d.individual_vote[v].option_id = sel[i]
          /\ d.individual_vote[v].voter_token = tok)

\* uq_poll_option_voter_token over the rows of the store and the rows inserted
UniqueVoteOk(d, pid, sel, tok) ==
    /\ \A i \in 1..Len(sel) : \A v \in DOMAIN d.individual_vote :
          ~(/\ d.individual_vote[v].poll_id = pid
            /\ d.individual_vote[v].option_id = sel[i]
            /\ d.individual_vote[v].voter_token = tok)
    /\ \A i, j \in 1..Len(sel) : i < j => sel[i] # sel[j]

\* the flush of the commit: UPDATE poll_option for every option whose votes
\* attribute changed (an UPDATE that matches no row raises), INSERT
\* individual_vote for every selected option (foreign keys, unique constraint),
\* then DELETE the previous votes (a DELETE that matches no row only warns)
VoteFlushOk(d, s) ==
    LET cached == VoteCached(s)
        dirty == {o \in DOMAIN s.orig : cached[o] # s.orig[o]}
    IN  /\ dirty \subseteq DOMAIN d.poll_option
        /\ s.poll_id \in DOMAIN d.poll
        /\ \A i \in 1..Len(s.selected_options) :
              s.selected_options[i] \in DOMAIN d.poll_option
        /\ UniqueVoteOk(d, s.poll_id, s.selected_options, s.token)

\* the store after the flush and the COMMIT
VoteFlush(d, s) ==
    LET cached == VoteCached(s)
        dirty == {o \in DOMAIN s.orig : cached[o] # s.orig[o]}
        sel == s.selected_options
        inserted == [v \in (d.vote_seq + 1)..(d.vote_seq + Len(sel)) |->
                        [poll_id |-> s.poll_id, option_id |-> sel[v - d.vote_seq],
                         voter_token |-> s.token]]
    IN  [d EXCEPT
            !.poll_option = [o \in DOMAIN @ |->
                                IF o \in dirty THEN [@[o] EXCEPT !.votes = cached[o]]
                                ELSE @[o]],
            !.individual_vote = Without(inserted @@ @, DOMAIN s.prev),
            !.vote_seq = @ + Len(sel)]

\* a variant of VoteOkResponse that always returns the token used
VoteOkResponseEchoes(s) ==
    [Response("ok", None) EXCEPT !.new_token = s.token, !.set_cookie = s.token]

\* the response of the endpoint after a commit that succeeded: the cookie is set
\* when a token was generated and the level is not "none"
VoteOkResponse(s) ==
    [Response("ok", None) EXCEPT
        !.new_token = s.new_token,
        !.set_cookie = IF Truthy(s.new_token) /\ s.poll.voting_security_level # "none"
                       THEN s.new_token ELSE None]

\* a variant of VoteCommit whose except block does not roll back
VoteCommitNoRollback(d, s, fail) ==
    IF ~VoteFlushOk(d, s)
    THEN [db |-> d, resp |-> Response("DB_VOTE_ERROR", None)]
    ELSE IF fail \in {"commit", "refresh"}
    THEN [db |-> VoteFlush(d, s), resp |-> Response("DB_VOTE_ERROR", None)]
    ELSE [db |-> VoteFlush(d, s), resp |-> VoteOkResponse(s)]

\* db.commit() and the refreshes, in one try block.  fail: where the store fails
\* ("commit": the flush or the COMMIT, rolled back; "refresh": after the COMMIT)
VoteCommit(d, s, fail) ==
    IF fail = "commit" \/ ~VoteFlushOk(d, s)
    THEN [db |-> d, resp |-> Response("DB_VOTE_ERROR", None)]
    ELSE IF fail = "refresh"
    THEN [db |-> VoteFlush(d, s), resp |-> Response("DB_VOTE_ERROR", None)]
    ELSE [db |-> VoteFlush(d, s), resp |-> VoteOkResponse(s)]

\* the whole handler run against one state of the store
VoteSteps(d, g, s0) ==
    LET s1 == VoteBegin(d, s0)
        s2 == IF s1.resp = NoResponse THEN VoteLoad(d, s1) ELSE s1
        s3 == IF s2.resp = NoResponse THEN VoteFindPrevious(d, g, s2) ELSE s2
    IN  s3

\* -------------------------------------------------------------- update_poll
\* Optional[bool] is << >> (None) or <<b>>; str(b)
StrBool(b) == IF b THEN "True" ELSE "False"

\* _add_history_entry: a PollEditHistory row (old_val / new_val already str'd)
HistoryEntry(pid, field, old_val, new_val, option_id) ==
    [poll_id |-> pid, field_changed |-> field, old_value |-> old_val,
     new_value |-> new_val, option_id_changed |-> option_id]

\* The working state of one update_poll call:
\*   poll      db_poll's scalar attributes
\*   options   existing_options_map, as id -> current text
\*   texts     current_option_texts_lower
\*   removed   ids passed to db.delete, added: texts of the options flushed
\*   renamed   ids whose text was assigned
\*   entries   history_entries_to_add
\*   changed   changes_made_to_poll_object
\*   resp      the exception raised, NoResponse while none is
UpdateState(d, pid) ==
    [poll_id |-> pid, poll |-> d.poll[pid],
     options |-> [o \in OptionsOf(d, pid) |-> d.poll_option[o].text],
     texts |-> {Lower(d.poll_option[o].text) : o \in OptionsOf(d, pid)},
     removed |-> << >>, renamed |-> {}, added |-> << >>, entries |-> << >>,
     changed |-> FALSE, next_option |-> d.option_seq + 1, resp |-> NoResponse]

\* a variant of UpdateScalars that logs every supplied value
UpdateScalarsSupplied(m, upd) ==
    LET q == upd.question # None
        p == upd.is_public # << >>
        a == upd.allow_multiple_selections # << >>
    IN  [m EXCEPT
            !.poll = [@ EXCEPT
                !.question = IF q THEN upd.question ELSE @,
                !.is_public = IF p THEN upd.is_public[1] ELSE @,
                !.allow_multiple_selections =
                    IF a THEN upd.allow_multiple_selections[1] ELSE @],
            !.entries = @
                \o (IF q THEN <<HistoryEntry(m.poll_id, "question", m.poll.question,
                                             upd.question, NoId)>> ELSE << >>)
                \o (IF p THEN <<HistoryEntry(m.poll_id, "is_public",
                                             StrBool(m.poll.is_public),
                                             StrBool(upd.is_public[1]), NoId)>>
                    ELSE << >>)
                \o (IF a THEN <<HistoryEntry(m.poll_id, "allow_multiple_selections",
                                    StrBool(m.poll.allow_multiple_selections),
                                    StrBool(upd.allow_multiple_selections[1]), NoId)>>
                    ELSE << >>),
            !.changed = @ \/ q \/ p \/ a]

\* the three scalar blocks: question, is_public, allow_multiple_selections
UpdateScalars(m, upd) ==
    LET q == upd.question # None /\ m.poll.question # upd.question
        p == upd.is_public # << >> /\ m.poll.is_public # upd.is_public[1]
        a == /\ upd.allow_multiple_selections # << >>
             /\ m.poll.allow_multiple_selections # upd.allow_multiple_selections[1]
    IN  [m EXCEPT
            !.poll = [@ EXCEPT
                !.question = IF q THEN upd.question ELSE @,
                !.is_public = IF p THEN upd.is_public[1] ELSE @,
                !.allow_multiple_selections =
                    IF a THEN upd.allow_multiple_selections[1] ELSE @],
            !.entries = @
                \o (IF q THEN <<HistoryEntry(m.poll_id, "question", m.poll.question,
                                             upd.question, NoId)>> ELSE << >>)
                \o (IF p THEN <<HistoryEntry(m.poll_id, "is_public",
                                             StrBool(m.poll.is_public),
                                             StrBool(upd.is_public[1]), NoId)>>
                    ELSE << >>)
                \o (IF a THEN <<HistoryEntry(m.poll_id, "allow_multiple_selections",
                                    StrBool(m.poll.allow_multiple_selections),
                                    StrBool(upd.allow_multiple_selections[1]), NoId)>>
                    ELSE << >>),
            !.changed = @ \/ q \/ p \/ a]

\* raise exc.InvalidRequestException(...): core.exceptions defines no such class,
\* so the expression raises AttributeError, which update_poll_endpoint's
\* "except Exception" turns into a 500 with this code
InvalidRequestException(detail) == Response("POLL_UPDATE_UNEXPECTED_ERROR", detail)

\* whether an option may be removed: it has no individual vote loaded
RemovalAllowed(d, o) == VotesOnOption(d, o) = {}

\* 1. Remove Options (d: the store as the selectinload of the votes read it)
RECURSIVE RemoveOptions(_, _, _)
RemoveOptions(m, d, ids) ==
    IF ids = << >> \/ m.resp # NoResponse THEN m
    ELSE LET o == Head(ids)
         IN  IF o \notin DOMAIN m.options
             THEN [m EXCEPT !.resp = [InvalidRequestException("remove_not_found")
                                        EXCEPT !.option_id = o]]
             ELSE IF ~RemovalAllowed(d, o)
             THEN [m EXCEPT !.resp = [Response("POLL_UPDATE_NOT_ALLOWED", "has_votes")
                                        EXCEPT !.option_id = o]]
             ELSE RemoveOptions(
                    [m EXCEPT
                        !.entries = Append(@, HistoryEntry(m.poll_id, "option_removed",
                                                  m.options[o], None, o)),
                        !.texts = @ \ {Lower(m.options[o])},
                        !.removed = Append(@, o),
                        !.options = Without(@, {o}),
                        !.changed = TRUE],
                    d, Tail(ids))

\* a variant of RenameCollides that compares the texts as written
RenameCollidesExact(texts, old_text, new_text) == new_text \in (texts \ {old_text})

\* a variant of RenameCollides that keeps the option's own text in the set
RenameCollidesOwn(texts, old_text, new_text) == Lower(new_text) \in texts

\* whether a rename to new_text collides: the lowered texts without the
\* option's own lowered text
RenameCollides(texts, old_text, new_text) ==
    Lower(new_text) \in (texts \ {Lower(old_text)})

\* 2. Update Existing Options' Text (updates: a seq of [id, text])
RECURSIVE UpdateOptionTexts(_, _)
UpdateOptionTexts(m, updates) ==
    IF updates = << >> \/ m.resp # NoResponse THEN m
    ELSE LET u == Head(updates)
         IN  IF u.id \notin DOMAIN m.options
             THEN [m EXCEPT !.resp = [InvalidRequestException("update_not_found")
                                        EXCEPT !.option_id = u.id]]
             ELSE IF m.options[u.id] = u.text
             THEN UpdateOptionTexts(m, Tail(updates))
             ELSE IF RenameCollides(m.texts, m.options[u.id], u.text)
             THEN [m EXCEPT !.resp = [Response("DUPLICATE_OPTION_TEXT", "on_update")
                                        EXCEPT !.option_id = u.id]]
             ELSE UpdateOptionTexts(
                    [m EXCEPT
                        !.entries = Append(@, HistoryEntry(m.poll_id,
                                        "option_text_updated", m.options[u.id],
                                        u.text, u.id)),
                        !.texts = (@ \ {Lower(m.options[u.id])}) \cup {Lower(u.text)},
                        !.options = [@ EXCEPT ![u.id] = u.text],
                        !.renamed = @ \cup {u.id},
                        !.changed = TRUE],
                    Tail(updates))

\* a variant of AddOptions without the duplicate text check
RECURSIVE AddOptionsUnchecked(_, _)
AddOptionsUnchecked(m, texts) ==
    IF texts = << >> \/ m.resp # NoResponse THEN m
    ELSE LET t == Head(texts)
         IN  AddOptionsUnchecked(
                    [m EXCEPT
                        !.entries = Append(@, HistoryEntry(m.poll_id, "option_added",
                                                  None, t, m.next_option)),
                        !.texts = @ \cup {Lower(t)},
                        !.added = Append(@, [id |-> m.next_option, text |-> t]),
                        !.next_option = @ + 1,
                        !.changed = TRUE],
                    Tail(texts))

\* 3. Add New Options (each one flushed, which gives it its id)
RECURSIVE AddOptions(_, _)
AddOptions(m, texts) ==
    IF texts = << >> \/ m.resp # NoResponse THEN m
    ELSE LET t == Head(texts)
         IN  IF Lower(t) \in m.texts
             THEN [m EXCEPT !.resp = Response("DUPLICATE_OPTION_TEXT", "on_add")]
             ELSE AddOptions(
                    [m EXCEPT
                        !.entries = Append(@, HistoryEntry(m.poll_id, "option_added",
                                                  None, t, m.next_option)),
                        !.texts = @ \cup {Lower(t)},
                        !.added = Append(@, [id |-> m.next_option, text |-> t]),
                        !.next_option = @ + 1,
                        !.changed = TRUE],
                    Tail(texts))

\* the working state when the code reaches "Finalize"
UpdateWork(d, pid, upd) ==
    AddOptions(
        UpdateOptionTexts(
            RemoveOptions(UpdateScalars(UpdateState(d, pid), upd), d,
                          upd.option_ids_to_remove),
            upd.options_to_update),
        upd.options_to_add)

\* a variant of UpdateFlushOk without the foreign key of individual_vote
UpdateFlushOkVotesUnkeyed(d, m) ==
    /\ m.poll_id \in DOMAIN d.poll
    /\ (m.added # << >>) => (m.removed = << >>)

\* Whether the statements of the update succeed.  db.flush() in the add loop
\* already deletes the removed options, so a history row inserted at the commit
\* with option_id_changed naming one of them breaks its foreign key; without an
\* added option the rows are inserted before the options are deleted.  A DELETE
\* of an option some individual_vote references breaks that foreign key.
UpdateFlushOk(d, m) ==
    /\ m.poll_id \in DOMAIN d.poll
    /\ \A i \in 1..Len(m.removed) : VotesOnOption(d, m.removed[i]) = {}
    /\ (m.added # << >>) => (m.removed = << >>)

\* a variant of NullRemoved that leaves the references as they are
NullRemovedKept(hist, removed) == hist

\* ON DELETE SET NULL of poll_edit_history.option_id_changed
NullRemoved(hist, removed) ==
    [h \in DOMAIN hist |->
        IF hist[h].option_id_changed \in removed
        THEN [hist[h] EXCEPT !.option_id_changed = NoId] ELSE hist[h]]

\* a variant of Advance that keeps the stored value
AdvanceKept(updated_at) == updated_at

\* db_poll.updated_at = func.now(): later than the stored value
Advance(updated_at) == updated_at + 1

\* a variant of UpdateFlush that writes a renamed option as a fresh row
UpdateFlushRenamedAnew(d, m) ==
    LET removed == {m.removed[i] : i \in 1..Len(m.removed)}
        added == [o \in {m.added[i].id : i \in 1..Len(m.added)} |->
                    [poll_id |-> m.poll_id,
                     text |-> m.added[o - d.option_seq].text, votes |-> 0]]
        rows == [h \in (d.history_seq + 1)..(d.history_seq + Len(m.entries)) |->
                    m.entries[h - d.history_seq]]
    IN  [d EXCEPT
            !.poll = [@ EXCEPT ![m.poll_id] =
                        IF m.changed \/ m.entries # << >>
                        THEN [m.poll EXCEPT !.updated_at = Advance(@)]
                        ELSE m.poll],
            !.poll_option =
                added @@ [o \in (DOMAIN @) \ removed |->
                            IF o \in m.renamed
                            THEN [@[o] EXCEPT !.text = m.options[o], !.votes = 0]
                            ELSE @[o]],
            !.option_seq = @ + Len(m.added),
            !.poll_edit_history = NullRemoved(rows @@ @, removed),
            !.history_seq = @ + Len(m.entries)]

\* the store after the update's commit
UpdateFlush(d, m) ==
    LET removed == {m.removed[i] : i \in 1..Len(m.removed)}
        added == [o \in {m.added[i].id : i \in 1..Len(m.added)} |->
                    [poll_id |-> m.poll_id,
                     text |-> m.added[o - d.option_seq].text, votes |-> 0]]
        rows == [h \in (d.history_seq + 1)..(d.history_seq + Len(m.entries)) |->
                    m.entries[h - d.history_seq]]
    IN  [d EXCEPT
            !.poll = [@ EXCEPT ![m.poll_id] =
                        IF m.changed \/ m.entries # << >>
                        THEN [m.poll EXCEPT !.updated_at = Advance(@)]
                        ELSE m.poll],
            !.poll_option =
                added @@ [o \in (DOMAIN @) \ removed |->
                            IF o \in m.renamed
                            THEN [@[o] EXCEPT !.text = m.options[o]] ELSE @[o]],
            !.option_seq = @ + Len(m.added),
            !.poll_edit_history = NullRemoved(rows @@ @, removed),
            !.history_seq = @ + Len(m.entries)]

\* update_poll for one state of the store.  fail as for VoteCommit
update_poll(d, pid, upd, fail) ==
    IF pid \notin DOMAIN d.poll
    THEN [db |-> d, resp |-> Response("POLL_NOT_FOUND", None)]
    ELSE IF d.poll[pid].modification_code # upd.modification_code
    THEN [db |-> d, resp |-> Response("INVALID_MODIFICATION_CODE", None)]
    ELSE LET m == UpdateWork(d, pid, upd)
         IN  IF m.resp # NoResponse THEN [db |-> d, resp |-> m.resp]
             ELSE IF fail = "commit" \/ ~UpdateFlushOk(d, m)
             THEN [db |-> d, resp |-> Response("DB_UPDATE_POLL_ERROR", None)]
             ELSE IF fail = "refresh"
             THEN [db |-> UpdateFlush(d, m),
                   resp |-> Response("DB_UPDATE_POLL_ERROR", None)]
             ELSE [db |-> UpdateFlush(d, m),
                   resp |-> [Ok EXCEPT !.poll_id = pid]]

\* ------------------------------------------------------ delete_poll_endpoint
\* a variant of DeleteRows that deletes the poll's row alone
DeleteRowsNoCascade(d, pid) == [d EXCEPT !.poll = Without(@, {pid})]

\* a variant of DeleteRows that leaves the poll's own row
DeleteRowsOnly(d, pid) ==
    [d EXCEPT
        !.individual_vote = Without(@, VotesOf(d, pid)),
        !.poll_option = Without(@, OptionsOf(d, pid)),
        !.poll_edit_history =
            Without(NullRemoved(@, OptionsOf(d, pid)), HistoryOf(d, pid))]

\* the bulk deletes of the poll's votes and options, then db.delete(db_poll)
\* with its cascades (options, individual_votes, edit_history)
DeleteRows(d, pid) ==
    [d EXCEPT
        !.individual_vote = Without(@, VotesOf(d, pid)),
        !.poll_option = Without(@, OptionsOf(d, pid)),
        !.poll_edit_history =
            Without(NullRemoved(@, OptionsOf(d, pid)), HistoryOf(d, pid)),
        !.poll = Without(@, {pid})]

\* a variant of delete_poll_endpoint that does not compare the codes
delete_poll_endpoint_any_code(d, pid, code, fail) ==
    IF pid \notin DOMAIN d.poll
    THEN [db |-> d, resp |-> Response("POLL_NOT_FOUND", None)]
    ELSE IF fail = "commit"
    THEN [db |-> d, resp |-> Response("POLL_DELETE_ERROR", None)]
    ELSE [db |-> DeleteRows(d, pid), resp |-> Ok]

delete_poll_endpoint(d, pid, code, fail) ==
    IF pid \notin DOMAIN d.poll
    THEN [db |-> d, resp |-> Response("POLL_NOT_FOUND", None)]
    ELSE IF d.poll[pid].modification_code # code
    THEN [db |-> d, resp |-> Response("INVALID_MODIFICATION_CODE", None)]
    ELSE IF fail = "commit"
    THEN [db |-> d, resp |-> Response("POLL_DELETE_ERROR", None)]
    ELSE [db |-> DeleteRows(d, pid), resp |-> Ok]

\* --------------------------------------------------------------- the reads
\* a response that carries rows
Rows(r, rows) ==
    [code |-> r.code, detail |-> r.detail, option_id |-> r.option_id,
     poll_id |-> r.poll_id, new_token |-> r.new_token,
     set_cookie |-> r.set_cookie, rows |-> rows]

\* get_poll: the Poll by its id, None (NoId) when no row has it
get_poll(d, pid) == IF pid \in DOMAIN d.poll THEN pid ELSE NoId

\* GET /polls/{poll_id}
get_poll_endpoint(d, pid) ==
    IF get_poll(d, pid) = NoId
    THEN [db |-> d, resp |-> Response("POLL_NOT_FOUND", None)]
    ELSE [db |-> d, resp |-> Rows([Ok EXCEPT !.poll_id = pid], OptionsOf(d, pid))]

\* get_poll_edit_history behind get_poll_history_endpoint: the rows of the
\* poll's history (their order, by edited_at, is left out)
get_poll_edit_history(d, pid) ==
    IF pid \notin DOMAIN d.poll
    THEN [db |-> d, resp |-> Response("POLL_NOT_FOUND", None)]
    ELSE [db |-> d, resp |-> Rows([Ok EXCEPT !.poll_id = pid], HistoryOf(d, pid))]

\* a variant of verify_modification_code that ignores the letter case
verify_modification_code_nocase(d, pid, provided_code) ==
    LET low(c) == CASE c = "Code0001" -> "code0001" [] c = "Code0002" -> "code0002"
                    [] OTHER -> c
    IN  /\ pid \in DOMAIN d.poll
        /\ low(d.poll[pid].modification_code) = low(provided_code)

\* verify_modification_code: False without the poll, else whether the codes
\* are equal (Python str ==)
verify_modification_code(d, pid, provided_code) ==
    IF get_poll(d, pid) = NoId THEN FALSE
    ELSE d.poll[pid].modification_code = provided_code

\* POST /polls/{poll_id}/verify-code/: rows holds the boolean the crud
\* function returned, when it was called
verify_poll_modification_code_endpoint(d, pid, provided_code) ==
    IF get_poll(d, pid) = NoId
    THEN [db |-> d, resp |-> Response("POLL_NOT_FOUND", None)]
    ELSE IF ~verify_modification_code(d, pid, provided_code)
    THEN [db |-> d, resp |-> Rows(Response("INVALID_MODIFICATION_CODE", None), FALSE)]
    ELSE [db |-> d, resp |-> Rows([Ok EXCEPT !.poll_id = pid], TRUE)]

\* str(uuid): the canonical text of a UUID, one text per UUID
Str(pid) == <<"uuid", pid>>

\* [polls_dict[str(pid)] for pid in poll_ids if str(pid) in polls_dict]
RECURSIVE OrderedPolls(_, _)
OrderedPolls(poll_ids, polls_dict) ==
    IF poll_ids = << >> THEN << >>
    ELSE (IF Str(Head(poll_ids)) \in DOMAIN polls_dict
          THEN <<polls_dict[Str(Head(poll_ids))]>> ELSE << >>)
         \o OrderedPolls(Tail(poll_ids), polls_dict)

\* a variant of get_polls_by_ids that returns the rows as the query found them
get_polls_by_ids_as_found(d, poll_ids) ==
    Ascending({p \in DOMAIN d.poll : \E i \in 1..Len(poll_ids) : poll_ids[i] = p})

\* get_polls_by_ids: the polls in the order of the ids asked for
get_polls_by_ids(d, poll_ids) ==
    IF poll_ids = << >> THEN << >>
    ELSE LET polls == {p \in DOMAIN d.poll :
                          \E i \in 1..Len(poll_ids) : poll_ids[i] = p}
             polls_dict == [k \in {Str(p) : p \in polls} |-> k[2]]
         IN  OrderedPolls(poll_ids, polls_dict)

\* POST /polls/saved/
get_saved_polls_endpoint(d, poll_ids) ==
    IF poll_ids = << >> THEN [db |-> d, resp |-> Rows(Ok, << >>)]
    ELSE [db |-> d, resp |-> Rows(Ok, get_polls_by_ids(d, poll_ids))]

\* ------------------------------------------------------------ the requests
\* the poll ids a client may name; the second is a poll only under SpecTwo
PollIds == {PollId(1), PollId(2)}

\* codes a client may present: the codes of the polls, each wrong for the other
ModificationCodes == {ModificationCode(1), ModificationCode(2)}

\* PollCreate bodies
CreateInputs ==
    [question : {"Q1"}, creator_display_name : {None},
     allow_multiple_selections : BOOLEAN,
     voting_security_level : {"none", "cookie_basic"},
     is_public : {TRUE}, options : {<<"a", "b">>}]

\* VoteRequest.selected_options: one or two ids among ids
SelectionsOver(ids) == {<<a>> : a \in ids} \cup {<<a, b>> : a, b \in ids}

\* the qp_voter_token cookie: absent, empty, or a token minted before
Cookies(g) == {None, ""} \cup {VoterToken(n) : n \in 1..g.tokens}

\* PollUpdate bodies
UpdateInputs ==
    [modification_code : ModificationCodes, question : {None}, is_public : {<< >>},
     allow_multiple_selections : {<< >>, <<TRUE>>, <<FALSE>>},
     options_to_add : {<< >>, <<"c">>},
     options_to_update : {<< >>},
     option_ids_to_remove : {<< >>} \cup {<<o>> : o \in 1..MaxOptions}]

\* where the store may fail during a handler that reached its commit
Failures == {"none", "commit", "refresh"}

Idle == [op |-> "idle"]
NoSnapshot == [db |-> EmptyDb, gen |-> EmptyGen]

Init ==
    /\ db = EmptyDb
    /\ gen = EmptyGen
    /\ pc = [w \in Workers |-> "idle"]
    /\ req = [w \in Workers |-> Idle]
    /\ resp = [w \in Workers |-> NoResponse]
    /\ pre = [w \in Workers |-> NoSnapshot]
    /\ sess = [w \in Workers |-> Idle]

\* a handler that ran as one step: the request, its response, and the store and
\* generators it started from
Handled(w, r, out, g) ==
    /\ pc' = [pc EXCEPT ![w] = "done"]
    /\ req' = [req EXCEPT ![w] = r]
    /\ resp' = [resp EXCEPT ![w] = out.resp]
    /\ pre' = [pre EXCEPT ![w] = [db |-> db, gen |-> gen]]
    /\ db' = out.db
    /\ gen' = g
    /\ UNCHANGED sess

\* POST /polls/ (the first poll only)
CreatePoll(w) ==
    /\ \A x \in Workers : pc[x] = "idle"
    /\ gen.polls = 0
    /\ \E data \in CreateInputs, name \in GeneratedNames,
          fail \in {"none", "poll_commit", "options_commit"} :
          /\ PollCreateValid(data)
          /\ db.option_seq + Len(data.options) <= MaxOptions
          /\ LET out == create_poll(db, gen, data, name, fail)
             IN  Handled(w, [op |-> "create", data |-> data, fail |-> fail],
                         out, out.gen)

\* POST /polls/{poll_id}/vote
CastVote(w) ==
    /\ \A x \in Workers : pc[x] = "idle"
    /\ \E pid \in PollIds, sel \in SelectionsOver(1..(db.option_seq + 1)),
          cookie \in Cookies(gen) :
          LET s == VoteSteps(db, gen, VoteSession(pid, sel, cookie))
              mint == IF s.resp = NoResponse /\ VoteMints(s) THEN 1 ELSE 0
          IN  /\ db.vote_seq + Len(sel) <= MaxVotes
              /\ gen.tokens + mint <= MaxTokens
              /\ \E fail \in IF s.resp = NoResponse THEN Failures ELSE {"none"} :
                    Handled(w, [op |-> "vote", poll_id |-> pid,
                                selected_options |-> sel, cookie |-> cookie,
                                fail |-> fail],
                            IF s.resp # NoResponse THEN [db |-> db, resp |-> s.resp]
                            ELSE VoteCommit(db, s, fail),
                            [gen EXCEPT !.tokens = @ + mint])

\* whether update_poll reaches its commit
UpdateCommits(d, pid, upd) ==
    /\ pid \in DOMAIN d.poll
    /\ d.poll[pid].modification_code = upd.modification_code
    /\ UpdateWork(d, pid, upd).resp = NoResponse

\* PUT /polls/{poll_id}
UpdatePoll(w) ==
    /\ \A x \in Workers : pc[x] = "idle"
    /\ \E pid \in PollIds, upd \in UpdateInputs :
          \E fail \in IF UpdateCommits(db, pid, upd) THEN Failures ELSE {"none"} :
             LET out == update_poll(db, pid, upd, fail)
             IN  /\ db.option_seq + Len(upd.options_to_add) <= MaxOptions
                 /\ out.db.history_seq <= MaxHist
                 /\ Handled(w, [op |-> "update", poll_id |-> pid, data |-> upd,
                                fail |-> fail], out, gen)

\* DELETE /polls/{poll_id}
DeletePoll(w) ==
    /\ \A x \in Workers : pc[x] = "idle"
    /\ \E pid \in PollIds, code \in ModificationCodes :
          \E fail \in IF pid \in DOMAIN db.poll /\ db.poll[pid].modification_code = code
                      THEN {"none", "commit"} ELSE {"none"} :
             Handled(w, [op |-> "delete", poll_id |-> pid,
                         modification_code |-> code, fail |-> fail],
                     delete_poll_endpoint(db, pid, code, fail), gen)

\* the response leaves the worker
Respond(w) ==
    /\ pc[w] = "done"
    /\ pc' = [pc EXCEPT ![w] = "idle"]
    /\ req' = [req EXCEPT ![w] = Idle]
    /\ resp' = [resp EXCEPT ![w] = NoResponse]
    /\ pre' = [pre EXCEPT ![w] = NoSnapshot]
    /\ UNCHANGED <<db, gen, sess>>

\* requests handled one at a time, each handler one step
Next ==
    \/ CreatePoll("w1")
    \/ CastVote("w1")
    \/ UpdatePoll("w1")
    \/ DeletePoll("w1")
    \/ Respond("w1")

Spec == Init /\ [][Next]_vars

\* ------------------------------------------------- two polls (SpecTwo)
\* the configurations of the two polls SpecTwo starts with
TwoPollInputs ==
    {<<[question |-> "Q1", creator_display_name |-> None,
        allow_multiple_selections |-> m, voting_security_level |-> l1,
        is_public |-> TRUE, options |-> <<"a", "b">>],
       [question |-> "Q2", creator_display_name |-> "Ann",
        allow_multiple_selections |-> FALSE, voting_security_level |-> l2,
        is_public |-> FALSE, options |-> <<"a", "c">>]>> :
        m \in BOOLEAN, l1 \in {"cookie_strict", "ip_address"},
        l2 \in {"none", "cookie_basic"}}

\* the store and the generators after two create_poll calls that succeeded
AfterCreates(datas) ==
    LET one == create_poll(EmptyDb, EmptyGen, datas[1], "Quick Fox", "none")
    IN  create_poll(one.db, one.gen, datas[2], "Quick Fox", "none")

InitTwo ==
    /\ \E datas \in TwoPollInputs :
          /\ db = AfterCreates(datas).db
          /\ gen = AfterCreates(datas).gen
    /\ pc = [w \in Workers |-> "idle"]
    /\ req = [w \in Workers |-> Idle]
    /\ resp = [w \in Workers |-> NoResponse]
    /\ pre = [w \in Workers |-> NoSnapshot]
    /\ sess = [w \in Workers |-> Idle]

NextTwo ==
    \/ CastVote("w1")
    \/ Respond("w1")

SpecTwo == InitTwo /\ [][NextTwo]_vars

\* ------------------------------------- concurrent vote requests (SpecConc)
\* individual_vote rows ever inserted under SpecConc
MaxConcVotes == 4

\* the poll SpecConc starts with
ConcPollInputs ==
    [question : {"Q1"}, creator_display_name : {None},
     allow_multiple_selections : BOOLEAN,
     voting_security_level : {"cookie_basic"},
     is_public : {TRUE}, options : {<<"a", "b">>}]

InitConc ==
    /\ \E data \in ConcPollInputs :
          /\ db = create_poll(EmptyDb, EmptyGen, data, "Quick Fox", "none").db
          /\ gen = create_poll(EmptyDb, EmptyGen, data, "Quick Fox", "none").gen
    /\ pc = [w \in Workers |-> "idle"]
    /\ req = [w \in Workers |-> Idle]
    /\ resp = [w \in Workers |-> NoResponse]
    /\ pre = [w \in Workers |-> NoSnapshot]
    /\ sess = [w \in Workers |-> Idle]

\* the workers whose handler is running
Running == {w \in Workers : pc[w] \notin {"idle", "done"}}

\* rows and tokens the running handlers may still insert and mint
RECURSIVE PendingVotes(_)
PendingVotes(ws) ==
    IF ws = {} THEN 0
    ELSE LET w == CHOOSE x \in ws : TRUE
         IN  Len(sess[w].selected_options) + PendingVotes(ws \ {w})
\* whether a vote request on poll pid with this cookie has a token minted
WillMint(d, pid, cookie) ==
    \/ ~Truthy(cookie)
    \/ pid \in DOMAIN d.poll /\ d.poll[pid].voting_security_level = "none"
PendingMints ==
    Cardinality({w \in Running : /\ pc[w] \in {"begun", "loaded"}
                                 /\ WillMint(db, req[w].poll_id, req[w].cookie)})

\* the tokens clients hold: those of committed ballots whose response has left
ReturnedTokens ==
    {db.individual_vote[v].voter_token : v \in DOMAIN db.individual_vote}
        \ {sess[w].new_token : w \in {x \in Workers : pc[x] # "idle"}}

\* a step of the session that only reads: the session after it, and the pc
\* ("done" when the handler raised)
VoteRead(w, s, next) ==
    /\ sess' = [sess EXCEPT ![w] = s]
    /\ pc' = [pc EXCEPT ![w] = IF s.resp = NoResponse THEN next ELSE "done"]
    /\ resp' = [resp EXCEPT ![w] = s.resp]
    /\ UNCHANGED <<db, pre>>

\* a vote request arrives at a worker, whose endpoint runs the security-level
\* query
VoteBeginStep(w) ==
    /\ pc[w] = "idle"
    /\ \E pid \in {PollId(1)}, sel \in SelectionsOver(1..db.option_seq),
          cookie \in {None} \cup ReturnedTokens :
          /\ db.vote_seq + PendingVotes(Running) + Len(sel) <= MaxConcVotes
          /\ gen.tokens + PendingMints + (IF WillMint(db, pid, cookie) THEN 1 ELSE 0)
                <= MaxTokens
          /\ req' = [req EXCEPT ![w] = [op |-> "vote", poll_id |-> pid,
                                        selected_options |-> sel, cookie |-> cookie]]
          /\ VoteRead(w, VoteBegin(db, VoteSession(pid, sel, cookie)), "begun")
    /\ UNCHANGED gen

\* crud_vote_on_poll's query of the poll with its options, and the validation
VoteLoadStep(w) ==
    /\ pc[w] = "begun"
    /\ VoteRead(w, VoteLoad(db, sess[w]), "loaded")
    /\ UNCHANGED <<gen, req>>

\* the query of the token's previous votes, or the minting of a token
VoteFindPreviousStep(w) ==
    /\ pc[w] = "loaded"
    /\ VoteRead(w, VoteFindPrevious(db, gen, sess[w]), "found")
    /\ gen' = [gen EXCEPT !.tokens = @ + (IF VoteMints(sess[w]) THEN 1 ELSE 0)]
    /\ UNCHANGED req

\* db.commit(): the flush and the COMMIT
VoteCommitStep(w) ==
    /\ pc[w] = "found"
    /\ \E fail \in {"none", "commit"} :
          LET out == VoteCommit(db, sess[w], fail)
          IN  /\ db' = out.db
              /\ resp' = [resp EXCEPT ![w] = out.resp]
    /\ pc' = [pc EXCEPT ![w] = "done"]
    /\ UNCHANGED <<gen, req, pre, sess>>

\* the response leaves the worker and its session is closed
RespondConc(w) ==
    /\ pc[w] = "done"
    /\ pc' = [pc EXCEPT ![w] = "idle"]
    /\ req' = [req EXCEPT ![w] = Idle]
    /\ resp' = [resp EXCEPT ![w] = NoResponse]
    /\ pre' = [pre EXCEPT ![w] = NoSnapshot]
    /\ sess' = [sess EXCEPT ![w] = Idle]
    /\ UNCHANGED <<db, gen>>

NextConc ==
    \E w \in Workers :
        \/ VoteBeginStep(w)
        \/ VoteLoadStep(w)
        \/ VoteFindPreviousStep(w)
        \/ VoteCommitStep(w)
        \/ RespondConc(w)

SpecConc == InitConc /\ [][NextConc]_vars

\* ------------------------------------------- update requests (SpecUpd)
\* poll_edit_history rows ever inserted under SpecUpd
MaxEdits == 3

\* the polls SpecUpd starts with
UpdPollInputs ==
    [question : {"Q1"}, creator_display_name : {None},
     allow_multiple_selections : {FALSE},
     voting_security_level : {"cookie_basic"},
     is_public : {TRUE}, options : {<<"a", "b">>, <<"A", "b">>}]

\* the store after create_poll and, when voted, one vote for the first option
AfterCreateAndVote(data, voted) ==
    LET made == create_poll(EmptyDb, EmptyGen, data, "Quick Fox", "none")
        s == VoteSteps(made.db, made.gen, VoteSession(PollId(1), <<1>>, None))
    IN  IF voted
        THEN [db |-> VoteCommit(made.db, s, "none").db,
              gen |-> [made.gen EXCEPT !.tokens = @ + 1]]
        ELSE [db |-> made.db, gen |-> made.gen]

InitUpd ==
    /\ \E data \in UpdPollInputs, voted \in BOOLEAN :
          /\ db = AfterCreateAndVote(data, voted).db
          /\ gen = AfterCreateAndVote(data, voted).gen
    /\ pc = [w \in Workers |-> "idle"]
    /\ req = [w \in Workers |-> Idle]
    /\ resp = [w \in Workers |-> NoResponse]
    /\ pre = [w \in Workers |-> NoSnapshot]
    /\ sess = [w \in Workers |-> Idle]

\* a PollUpdate body with the right modification code
Body(question, is_public, allow_multiple, remove, updates, add) ==
    [modification_code |-> ModificationCode(1), question |-> question,
     is_public |-> is_public, allow_multiple_selections |-> allow_multiple,
     options_to_add |-> add, options_to_update |-> updates,
     option_ids_to_remove |-> remove]

\* PollOptionTextUpdate
Rename(o, t) == [id |-> o, text |-> t]

\* option texts of the requests
Texts == {"a", "A", "b", "c", "C"}

\* PollUpdate bodies of SpecUpd: the scalar fields alone, each option list
\* alone, and two lists together
EditInputs ==
    {Body(q, p, m, << >>, << >>, << >>) :
        q \in {None, "Q1", "Q2"}, p \in {<< >>, <<TRUE>>, <<FALSE>>},
        m \in {<< >>, <<FALSE>>, <<TRUE>>}}
    \cup {Body(None, << >>, << >>, <<o>>, << >>, << >>) : o \in 1..MaxOptions}
    \cup {Body(None, << >>, << >>, <<1, 2>>, << >>, << >>)}
    \cup {Body(None, << >>, << >>, << >>, <<Rename(o, t)>>, << >>) :
            o \in 1..MaxOptions, t \in Texts}
    \cup {Body(None, << >>, << >>, << >>, <<Rename(1, "c"), Rename(1, t)>>, << >>) :
            t \in {"a", "c", "C"}}
    \cup {Body(None, << >>, << >>, << >>, << >>, <<t>>) : t \in Texts}
    \cup {Body(None, << >>, << >>, << >>, << >>, <<"c", t>>) : t \in {"C", "b"}}
    \cup {Body(None, << >>, << >>, <<o>>, <<Rename(x, t)>>, << >>) :
            o \in 1..2, x \in 1..2, t \in {"a", "A", "b"}}
    \cup {Body(None, << >>, << >>, <<o>>, << >>, <<t>>) :
            o \in 1..2, t \in {"a", "b", "c"}}
    \cup {Body(None, << >>, << >>, << >>, <<Rename(o, "c")>>, <<t>>) :
            o \in 1..2, t \in {"a", "C"}}
    \cup {Body("Q2", << >>, << >>, <<2>>, <<Rename(1, "c")>>, << >>),
          Body("Q2", << >>, <<TRUE>>, << >>, << >>, <<"c">>)}

\* PUT /polls/{poll_id} with the bodies of EditInputs
EditPoll(w) ==
    /\ \A x \in Workers : pc[x] = "idle"
    /\ \E upd \in EditInputs :
          \E fail \in IF UpdateCommits(db, PollId(1), upd)
                      THEN {"none", "commit"} ELSE {"none"} :
             LET out == update_poll(db, PollId(1), upd, fail)
             IN  /\ out.db.option_seq <= MaxOptions
                 /\ out.db.history_seq <= MaxEdits
                 /\ Handled(w, [op |-> "update", poll_id |-> PollId(1),
                                data |-> upd, fail |-> fail], out, gen)

NextUpd ==
    \/ EditPoll("w1")
    \/ Respond("w1")

SpecUpd == InitUpd /\ [][NextUpd]_vars

\* ------------------------------------- the life of two polls (SpecLife)
\* polls ever created under SpecLife, and the rows ever inserted
MaxPolls == 2
MaxLifeOptions == 5
MaxLifeVotes == 2

\* PollCreate bodies of SpecLife
LifeCreateInputs ==
    [question : {"Q1"}, creator_display_name : {None},
     allow_multiple_selections : {FALSE},
     voting_security_level : {"cookie_basic"},
     is_public : {TRUE}, options : {<<"a", "b">>}]

\* POST /polls/
CreateAnyPoll(w) ==
    /\ \A x \in Workers : pc[x] = "idle"
    /\ gen.polls < MaxPolls
    /\ \E data \in LifeCreateInputs, name \in GeneratedNames,
          fail \in {"none", "poll_commit", "options_commit"} :
          /\ PollCreateValid(data)
          /\ db.option_seq + Len(data.options) <= MaxLifeOptions
          /\ LET out == create_poll(db, gen, data, name, fail)
             IN  Handled(w, [op |-> "create", data |-> data, fail |-> fail],
                         out, out.gen)

\* POST /polls/{poll_id}/vote with one selected option
VoteOnAnyPoll(w) ==
    /\ \A x \in Workers : pc[x] = "idle"
    /\ \E pid \in PollIds, o \in 1..db.option_seq,
          cookie \in {None} \cup {VoterToken(n) : n \in 1..gen.tokens} :
          LET s == VoteSteps(db, gen, VoteSession(pid, <<o>>, cookie))
              mint == IF s.resp = NoResponse /\ VoteMints(s) THEN 1 ELSE 0
          IN  /\ db.vote_seq + 1 <= MaxLifeVotes
              /\ gen.tokens + mint <= MaxTokens
              /\ Handled(w, [op |-> "vote", poll_id |-> pid,
                             selected_options |-> <<o>>, cookie |-> cookie,
                             fail |-> "none"],
                         IF s.resp # NoResponse THEN [db |-> db, resp |-> s.resp]
                         ELSE VoteCommit(db, s, "none"),
                         [gen EXCEPT !.tokens = @ + mint])

\* PollUpdate bodies of SpecLife: either poll's code; nothing, a question, a
\* removal or a rename of the first option of either poll, an addition
LifeEditInputs ==
    {[b EXCEPT !.modification_code = c] :
        c \in ModificationCodes,
        b \in {Body(None, << >>, << >>, << >>, << >>, << >>),
               Body("Q2", << >>, << >>, << >>, << >>, << >>),
               Body(None, << >>, << >>, << >>, << >>, <<"c">>)}
              \cup {Body(None, << >>, << >>, <<o>>, << >>, << >>) : o \in {1, 3}}
              \cup {Body(None, << >>, << >>, << >>, <<Rename(o, "c")>>, << >>) :
                        o \in {1, 3}}}

\* PUT /polls/{poll_id} with the bodies of LifeEditInputs
EditAnyPoll(w) ==
    /\ \A x \in Workers : pc[x] = "idle"
    /\ \E pid \in PollIds, upd \in LifeEditInputs :
          \E fail \in IF UpdateCommits(db, pid, upd) THEN Failures ELSE {"none"} :
             LET out == update_poll(db, pid, upd, fail)
             IN  /\ out.db.option_seq <= MaxLifeOptions
                 /\ out.db.history_seq <= MaxHist
                 /\ Handled(w, [op |-> "update", poll_id |-> pid, data |-> upd,
                                fail |-> fail], out, gen)

\* GET /polls/{poll_id}
GetPoll(w) ==
    /\ \A x \in Workers : pc[x] = "idle"
    /\ \E pid \in PollIds :
          Handled(w, [op |-> "get", poll_id |-> pid], get_poll_endpoint(db, pid), gen)

\* GET /polls/{poll_id}/history
GetHistory(w) ==
    /\ \A x \in Workers : pc[x] = "idle"
    /\ \E pid \in PollIds :
          Handled(w, [op |-> "history", poll_id |-> pid],
                  get_poll_edit_history(db, pid), gen)

\* codes a client may present to verify-code: the polls' codes and the first in
\* another letter case
CandidateCodes == ModificationCodes \cup {"code0001"}

\* POST /polls/{poll_id}/verify-code/
VerifyCode(w) ==
    /\ \A x \in Workers : pc[x] = "idle"
    /\ \E pid \in PollIds, code \in CandidateCodes :
          Handled(w, [op |-> "verify", poll_id |-> pid, modification_code |-> code],
                  verify_poll_modification_code_endpoint(db, pid, code), gen)

\* PollsByIdsRequest.poll_ids: one or two ids, of polls that may exist
SavedIds == {<<a>> : a \in PollIds} \cup {<<a, b>> : a, b \in PollIds}

\* POST /polls/saved/
GetSavedPolls(w) ==
    /\ \A x \in Workers : pc[x] = "idle"
    /\ \E ids \in SavedIds :
          Handled(w, [op |-> "saved", poll_ids |-> ids],
                  get_saved_polls_endpoint(db, ids), gen)

NextLife ==
    \/ CreateAnyPoll("w1")
    \/ VoteOnAnyPoll("w1")
    \/ EditAnyPoll("w1")
    \/ DeletePoll("w1")
    \/ GetPoll("w1")
    \/ GetHistory("w1")
    \/ VerifyCode("w1")
    \/ GetSavedPolls("w1")
    \/ Respond("w1")

SpecLife == Init /\ [][NextLife]_vars

\* --------------------------- an update racing with votes (SpecRace)
\* individual_vote rows and poll_edit_history rows ever inserted under SpecRace
MaxRaceVotes == 2
MaxRaceEdits == 2

\* PollUpdate bodies of SpecRace: the removal or the renaming of one option,
\* with the poll's code or another one
RaceEditInputs ==
    {[b EXCEPT !.modification_code = c] :
        c \in ModificationCodes,
        b \in {Body(None, << >>, << >>, <<o>>, << >>, << >>) : o \in 1..2}
                \cup {Body(None, << >>, << >>, << >>, <<Rename(1, "c")>>, << >>)}}

\* the tokens of the committed ballots
CommittedTokens ==
    {db.individual_vote[v].voter_token : v \in DOMAIN db.individual_vote}

\* a vote request for one option arrives at worker w, whose endpoint runs the
\* security-level query
RaceVoteBeginStep(w) ==
    /\ pc[w] = "idle"
    /\ \E pid \in {PollId(1)}, o \in 1..db.option_seq,
          cookie \in {None} \cup CommittedTokens :
          /\ db.vote_seq + 1 <= MaxRaceVotes
          /\ gen.tokens + (IF WillMint(db, pid, cookie) THEN 1 ELSE 0) <= MaxTokens
          /\ req' = [req EXCEPT ![w] = [op |-> "vote", poll_id |-> pid,
                                        selected_options |-> <<o>>,
                                        cookie |-> cookie]]
          /\ VoteRead(w, VoteBegin(db, VoteSession(pid, <<o>>, cookie)), "begun")
    /\ UNCHANGED gen

\* An update request's session: the working state update_poll built from the
\* rows its query loaded (the poll, its options and their individual votes)
UpdateSession(d, pid, upd) ==
    [op |-> "update", poll_id |-> pid, data |-> upd,
     work |-> IF pid \in DOMAIN d.poll THEN UpdateWork(d, pid, upd)
              ELSE [resp |-> Response("POLL_NOT_FOUND", None)]]

\* the response of update_poll before its commit, NoResponse when it reaches it
UpdateEarly(d, pid, upd) ==
    IF pid \notin DOMAIN d.poll THEN Response("POLL_NOT_FOUND", None)
    ELSE IF d.poll[pid].modification_code # upd.modification_code
    THEN Response("INVALID_MODIFICATION_CODE", None)
    ELSE UpdateWork(d, pid, upd).resp

\* update_poll's commit for a working state m built earlier: the flush against
\* the store as it is now, the COMMIT and the refreshes
UpdateCommit(d, m, fail) ==
    IF fail = "commit" \/ ~UpdateFlushOk(d, m)
    THEN [db |-> d, resp |-> Response("DB_UPDATE_POLL_ERROR", None)]
    ELSE IF fail = "refresh"
    THEN [db |-> UpdateFlush(d, m), resp |-> Response("DB_UPDATE_POLL_ERROR", None)]
    ELSE [db |-> UpdateFlush(d, m), resp |-> [Ok EXCEPT !.poll_id = m.poll_id]]

\* an update request arrives at worker w: update_poll's query, the code check
\* and the three loops, which work on the rows loaded
UpdateLoadStep(w) ==
    /\ pc[w] = "idle"
    /\ \E pid \in {PollId(1)}, upd \in RaceEditInputs :
          LET early == UpdateEarly(db, pid, upd)
              s == UpdateSession(db, pid, upd)
          IN  /\ early = NoResponse
                    => db.history_seq + Len(s.work.entries) <= MaxRaceEdits
              /\ req' = [req EXCEPT ![w] = [op |-> "update", poll_id |-> pid,
                                            data |-> upd]]
              /\ sess' = [sess EXCEPT ![w] = s]
              /\ pc' = [pc EXCEPT ![w] = IF early = NoResponse THEN "worked"
                                         ELSE "done"]
              /\ resp' = [resp EXCEPT ![w] = early]
    /\ UNCHANGED <<db, gen, pre>>

\* update_poll's db.commit()
UpdateCommitStep(w) ==
    /\ pc[w] = "worked"
    /\ \E fail \in {"none", "commit"} :
          LET out == UpdateCommit(db, sess[w].work, fail)
          IN  /\ db' = out.db
              /\ resp' = [resp EXCEPT ![w] = out.resp]
    /\ pc' = [pc EXCEPT ![w] = "done"]
    /\ UNCHANGED <<gen, req, pre, sess>>

\* worker w1 handles vote requests while worker w2 handles update requests
NextRace ==
    \/ RaceVoteBeginStep("w1")
    \/ VoteLoadStep("w1")
    \/ VoteFindPreviousStep("w1")
    \/ VoteCommitStep("w1")
    \/ UpdateLoadStep("w2")
    \/ UpdateCommitStep("w2")
    \/ \E w \in Workers : RespondConc(w)

SpecRace == InitConc /\ [][NextRace]_vars

\* ================================================================ claims
\* the request worker w1 has just handled, its response, and the store and the
\* generators before it
R == req["w1"]
A == resp["w1"]
P == pre["w1"].db
G == pre["w1"].gen
Done(op) == pc["w1"] = "done" /\ R.op = op

\* the votes counter of option o and the number of rows referencing it
Votes(d, o) == d.poll_option[o].votes
Ballots(d, o) == Cardinality(VotesOnOption(d, o))
\* the option ids of a token's rows on a poll
TokenOptions(d, pid, tok) ==
    {d.individual_vote[v].option_id : v \in VotesOfToken(d, pid, tok)}
\* the rows a request inserted
NewVotes == (DOMAIN db.individual_vote) \ (DOMAIN P.individual_vote)
Elems(seq) == {seq[i] : i \in 1..Len(seq)}
\* the token crud_vote_on_poll was called with for the request R
PassedToken ==
    IF P.poll[R.poll_id].voting_security_level = "none" THEN None ELSE R.cookie

\* C1: after any sequence of createPoll, castVote, updatePoll and deletePoll
\* handled one at a time, every option's votes counter equals the number of
\* individual_vote rows that reference the option.
C1_CounterEqualsBallots ==
    \A o \in DOMAIN db.poll_option : Votes(db, o) = Ballots(db, o)

\* a recast that removed a ballot, on a poll an update had changed before
C1_Witness ==
    /\ Done("vote") /\ A.code = "ok"
    /\ (DOMAIN P.individual_vote) \ (DOMAIN db.individual_vote) # {}
    /\ DOMAIN db.poll_edit_history # {}
    /\ \E o \in DOMAIN db.poll_option : Votes(db, o) = 1

\* C2: two concurrent castVote requests with different tokens that both read
\* the same counter of the option they both select, and both commit, leave the
\* counter two higher and equal to the option's number of ballots.
C2_NoLostIncrement ==
    \A o \in DOMAIN db.poll_option :
        ( /\ pc["w1"] = "done" /\ pc["w2"] = "done"
          /\ resp["w1"].code = "ok" /\ resp["w2"].code = "ok"
          /\ sess["w1"].token # sess["w2"].token
          /\ sess["w1"].selected_options = <<o>>
          /\ sess["w2"].selected_options = <<o>>
          /\ sess["w1"].prev = EmptyTable /\ sess["w2"].prev = EmptyTable
          /\ sess["w1"].orig[o] = sess["w2"].orig[o] )
        => /\ Votes(db, o) = sess["w1"].orig[o] + 2
           /\ Votes(db, o) = Ballots(db, o)

\* the poll of request R is single-select and its level is not "none"
SingleTracked ==
    /\ R.poll_id \in DOMAIN P.poll
    /\ ~P.poll[R.poll_id].allow_multiple_selections
    /\ P.poll[R.poll_id].voting_security_level # "none"

\* the request R is a recast: token R.cookie held exactly one ballot, on option
\* a, and R selects the single option b, another one
Recast(a, b) ==
    /\ Done("vote") /\ A.code = "ok" /\ SingleTracked /\ Truthy(R.cookie)
    /\ Cardinality(VotesOfToken(P, R.poll_id, R.cookie)) = 1
    /\ TokenOptions(P, R.poll_id, R.cookie) = {a}
    /\ R.selected_options = <<b>> /\ a # b

\* C3: on a single-select poll whose level is not "none", a cast without a token
\* for option a returns a token that holds exactly one ballot, on a, and raises
\* a's counter by one; a later cast with that token for another option b leaves
\* the token with exactly one ballot, on b, a's counter one lower (its value
\* before the first cast) and b's counter one higher, and returns no new token.
C3_RecastReplaces ==
    /\ (Done("vote") /\ A.code = "ok" /\ SingleTracked /\ R.cookie = None)
        => /\ Truthy(A.new_token) /\ A.set_cookie = A.new_token
           /\ Cardinality(VotesOfToken(db, R.poll_id, A.new_token)) = 1
           /\ TokenOptions(db, R.poll_id, A.new_token) = Elems(R.selected_options)
           /\ \A o \in Elems(R.selected_options) : Votes(db, o) = Votes(P, o) + 1
    /\ \A a, b \in DOMAIN P.poll_option :
          Recast(a, b)
          => /\ Cardinality(VotesOfToken(db, R.poll_id, R.cookie)) = 1
             /\ TokenOptions(db, R.poll_id, R.cookie) = {b}
             /\ Votes(db, a) = Votes(P, a) - 1
             /\ Votes(db, b) = Votes(P, b) + 1
             /\ A.new_token = None

\* the recast of the spec's example: Red back to 0, Blue at 1
C3_Witness ==
    \E a, b \in DOMAIN P.poll_option :
        Recast(a, b) /\ Votes(db, a) = 0 /\ Votes(db, b) = 1

\* C4: a cast that succeeds returns a newly minted token if and only if
\* crud_vote_on_poll was called without a token (none, or an empty one); the
\* minted token is the next fresh one and the new ballots are recorded under
\* it; when a token is passed (level cookie_basic, cookie_strict or ip_address)
\* the new ballots are recorded under that token and no token is returned.
C4_TokenMintedIffAbsent ==
    (Done("vote") /\ A.code = "ok")
    => /\ Truthy(A.new_token) <=> ~Truthy(PassedToken)
       /\ NewVotes # {}
       /\ Truthy(A.new_token)
            => /\ A.new_token = VoterToken(G.tokens + 1)
               /\ \A v \in DOMAIN P.individual_vote :
                     P.individual_vote[v].voter_token # A.new_token
               /\ \A v \in NewVotes : db.individual_vote[v].voter_token = A.new_token
       /\ Truthy(PassedToken)
            => /\ A.new_token = None /\ A.set_cookie = None
               /\ \A v \in NewVotes : db.individual_vote[v].voter_token = R.cookie

\* a token passed on a poll of level cookie_strict or ip_address
C4_Witness ==
    /\ Done("vote") /\ A.code = "ok" /\ Truthy(PassedToken)
    /\ P.poll[R.poll_id].voting_security_level \in {"cookie_strict", "ip_address"}
    /\ \A v \in NewVotes : db.individual_vote[v].voter_token = R.cookie

\* C5: on a poll of level "none" a vote request that carries a token removes no
\* ballot and lowers no counter, and when it succeeds it adds one ballot per
\* selected option under a token minted for it.
C5_NoneLevelIgnoresToken ==
    ( /\ Done("vote") /\ R.poll_id \in DOMAIN P.poll /\ Truthy(R.cookie)
      /\ P.poll[R.poll_id].voting_security_level = "none" )
    => /\ \A v \in DOMAIN P.individual_vote :
             v \in DOMAIN db.individual_vote
             /\ db.individual_vote[v] = P.individual_vote[v]
       /\ \A o \in DOMAIN P.poll_option :
             o \in DOMAIN db.poll_option /\ Votes(db, o) >= Votes(P, o)
       /\ A.code = "ok"
            => /\ Cardinality(NewVotes) = Len(R.selected_options)
               /\ {db.individual_vote[v].option_id : v \in NewVotes}
                    = Elems(R.selected_options)
               /\ \A v \in NewVotes :
                     /\ db.individual_vote[v].voter_token = VoterToken(G.tokens + 1)
                     /\ db.individual_vote[v].voter_token # R.cookie
                     /\ db.individual_vote[v].poll_id = R.poll_id
               /\ \A o \in Elems(R.selected_options) : Votes(db, o) = Votes(P, o) + 1

\* the token carried holds a ballot on the poll, and the request succeeded
C5_Witness ==
    /\ Done("vote") /\ R.poll_id \in DOMAIN P.poll /\ Truthy(R.cookie)
    /\ P.poll[R.poll_id].voting_security_level = "none"
    /\ A.code = "ok"
    /\ VotesOfToken(P, R.poll_id, R.cookie) # {}

\* C6: a castVote whose selection holds an id that is not an option of the
\* target poll fails with InvalidVote and changes nothing in the store.
C6_UnknownOptionRejected ==
    ( /\ Done("vote") /\ R.poll_id \in DOMAIN P.poll
      /\ \E o \in Elems(R.selected_options) : o \notin OptionsOf(P, R.poll_id) )
    => A.code = "INVALID_VOTE" /\ db = P

\* C7: on a poll that disallows multiple selections a castVote with two or more
\* selected ids fails with InvalidVote and changes nothing in the store.
C7_SingleSelectRejectsTwo ==
    ( /\ Done("vote") /\ R.poll_id \in DOMAIN P.poll
      /\ ~P.poll[R.poll_id].allow_multiple_selections
      /\ Len(R.selected_options) >= 2 )
    => A.code = "INVALID_VOTE" /\ db = P

\* the token the ballots of request R were recorded under
UsedToken == IF Truthy(A.new_token) THEN A.new_token ELSE R.cookie

\* C8: no two individual_vote rows share (poll, option, voter token), and after
\* a castVote that succeeded on a multi-select poll the token's ballots on the
\* poll are exactly one per selected option.
C8_UniqueTriple ==
    /\ \A v1, v2 \in DOMAIN db.individual_vote :
          v1 # v2 => db.individual_vote[v1] # db.individual_vote[v2]
    /\ ( /\ Done("vote") /\ A.code = "ok"
         /\ P.poll[R.poll_id].allow_multiple_selections )
        => /\ TokenOptions(db, R.poll_id, UsedToken) = Elems(R.selected_options)
           /\ Cardinality(VotesOfToken(db, R.poll_id, UsedToken))
                = Len(R.selected_options)

\* a recast on a multi-select poll from one option to two others
C8_Witness ==
    /\ Done("vote") /\ A.code = "ok"
    /\ P.poll[R.poll_id].allow_multiple_selections
    /\ Truthy(R.cookie) /\ VotesOfToken(P, R.poll_id, R.cookie) # {}
    /\ Len(R.selected_options) = 2

\* C9: when the store fails while castVote commits (the flush or the COMMIT),
\* the request reports DB_VOTE_ERROR and the store is as before the request.
C9_CommitFailureRollsBack ==
    /\ (Done("vote") /\ R.fail = "commit") => A.code = "DB_VOTE_ERROR" /\ db = P
    /\ (Done("vote") /\ R.fail = "none" /\ A.code = "DB_VOTE_ERROR") => db = P

\* the commit of a recast failed: removals and new rows were pending
C9_Witness ==
    /\ Done("vote") /\ R.fail = "commit" /\ A.code = "DB_VOTE_ERROR"
    /\ Truthy(PassedToken) /\ VotesOfToken(P, R.poll_id, R.cookie) # {}
    /\ db = P

\* C10: no option's votes counter is negative, also when castVote requests run
\* concurrently.
C10_CounterNonNegative ==
    \A o \in DOMAIN db.poll_option : Votes(db, o) >= 0

\* a recast committed after decrementing a counter it had read as 0
C10_Witness ==
    \E w \in Workers :
        /\ pc[w] = "done" /\ resp[w].code = "ok"
        /\ \E v \in DOMAIN sess[w].prev :
              /\ sess[w].prev[v] \in DOMAIN sess[w].orig
              /\ sess[w].orig[sess[w].prev[v]] = 0

\* ------------------------------------------------ claims about update_poll
\* the PollUpdate body of the request R, and the rows it added to the history
U == R.data
NewHistory == (DOMAIN db.poll_edit_history) \ (DOMAIN P.poll_edit_history)
NewEntries(field) ==
    {h \in NewHistory : db.poll_edit_history[h].field_changed = field}

\* R is an update of a poll that exists, with the right modification code
Updating ==
    /\ Done("update") /\ R.poll_id \in DOMAIN P.poll
    /\ P.poll[R.poll_id].modification_code = U.modification_code

\* every id of the removal list is an option of the poll without ballots, once
RemovalsValid ==
    /\ \A i \in 1..Len(U.option_ids_to_remove) :
          /\ U.option_ids_to_remove[i] \in OptionsOf(P, R.poll_id)
          /\ Ballots(P, U.option_ids_to_remove[i]) = 0
    /\ \A i, j \in 1..Len(U.option_ids_to_remove) :
          i < j => U.option_ids_to_remove[i] # U.option_ids_to_remove[j]

\* the options of the poll that the removal list does not name
Surviving == OptionsOf(P, R.poll_id) \ Elems(U.option_ids_to_remove)

\* the first id of the removal list that is an option with ballots, all ids
\* before it being options without ballots; NoId when there is none
RECURSIVE FirstVoted(_)
FirstVoted(ids) ==
    IF ids = << >> \/ Head(ids) \notin OptionsOf(P, R.poll_id) THEN NoId
    ELSE IF Ballots(P, Head(ids)) > 0 THEN Head(ids)
    ELSE FirstVoted(Tail(ids))

\* C11: an updatePoll that removes options without live ballots (and renames
\* nothing, and adds at most options whose texts collide with no surviving
\* option) succeeds, deletes each option and writes one option_removed history
\* entry per option, holding its former text as old value; an updatePoll whose
\* removal list reaches an option with live ballots fails with UpdateNotAllowed
\* and changes nothing.
C11_RemovalContract ==
    /\ ( /\ Updating /\ R.fail = "none"
         /\ U.option_ids_to_remove # << >> /\ RemovalsValid
         /\ U.options_to_update = << >>
         /\ \A i \in 1..Len(U.options_to_add) :
               /\ \A o \in Surviving :
                     Lower(P.poll_option[o].text) # Lower(U.options_to_add[i])
               /\ \A j \in 1..Len(U.options_to_add) :
                     i < j => Lower(U.options_to_add[i]) # Lower(U.options_to_add[j]) )
        => /\ A.code = "ok"
           /\ \A o \in Elems(U.option_ids_to_remove) :
                 /\ o \notin DOMAIN db.poll_option
                 /\ Cardinality({h \in NewEntries("option_removed") :
                        db.poll_edit_history[h].old_value = P.poll_option[o].text})
                      = 1
           /\ Cardinality(NewEntries("option_removed")) = Len(U.option_ids_to_remove)
    /\ (Updating /\ FirstVoted(U.option_ids_to_remove) # NoId)
        => A.code = "POLL_UPDATE_NOT_ALLOWED" /\ db = P

\* C12: every poll has at least two options in every reachable state.
C12_AtLeastTwoOptions ==
    \A pid \in DOMAIN db.poll : Cardinality(OptionsOf(db, pid)) >= 2

\* C13: no two options of a poll have texts that are equal case-insensitively,
\* after createPoll and any sequence of updatePoll requests handled one at a
\* time.
C13_TextsUniqueIgnoringCase ==
    \A o1, o2 \in DOMAIN db.poll_option :
        ( /\ o1 # o2
          /\ db.poll_option[o1].poll_id = db.poll_option[o2].poll_id )
        => Lower(db.poll_option[o1].text) # Lower(db.poll_option[o2].text)

\* a rename to an upper-case text that succeeded on a poll of three options
C13_Witness ==
    /\ Updating /\ A.code = "ok"
    /\ Cardinality(OptionsOf(db, R.poll_id)) = 3
    /\ \E o \in OptionsOf(db, R.poll_id) :
          /\ db.poll_option[o].text \in {"A", "C"}
          /\ o \in DOMAIN P.poll_option
          /\ P.poll_option[o].text # db.poll_option[o].text

\* the text of option o in store d
Text(d, o) == d.poll_option[o].text

\* R carries one rename, of an option that survives R's removals, which are valid
OneRename ==
    /\ Updating /\ Len(U.options_to_update) = 1 /\ RemovalsValid
    /\ U.options_to_update[1].id \in Surviving

\* the response is DuplicateOptionText raised by the rename step
RenameRejected == A.code = "DUPLICATE_OPTION_TEXT" /\ A.detail = "on_update"

\* C14: a rename fails with DuplicateOptionText if and only if another option
\* that survives the request's removals has a text equal to the new text
\* case-insensitively; a rename to the option's own text, in any letter case, is
\* never rejected as a duplicate.
C14_RenameDuplicateIff ==
    OneRename =>
        LET u == U.options_to_update[1]
        IN  /\ RenameRejected
                <=> \E o \in Surviving \ {u.id} :
                        Lower(Text(P, o)) = Lower(u.text)
            /\ Lower(u.text) = Lower(Text(P, u.id)) => ~RenameRejected

\* an option renamed to its own text in another letter case, accepted
C14_Witness ==
    /\ OneRename /\ A.code = "ok"
    /\ Lower(U.options_to_update[1].text) = Lower(Text(P, U.options_to_update[1].id))
    /\ U.options_to_update[1].text # Text(P, U.options_to_update[1].id)
    /\ Text(db, U.options_to_update[1].id) = U.options_to_update[1].text

\* C15: a successful rename of an option to its own current text in a different
\* letter case writes no history entry.
C15_CaseOnlyRenameNotLogged ==
    ( /\ OneRename /\ A.code = "ok"
      /\ Lower(U.options_to_update[1].text) = Lower(Text(P, U.options_to_update[1].id)) )
    => NewEntries("option_text_updated") = {}

\* the scalar fields of U whose supplied value differs from the poll's, the
\* renames of U whose text differs from the option's, and whether U holds an
\* effective change at all
ScalarChanges ==
    LET poll == P.poll[R.poll_id]
    IN  (IF U.question # None /\ U.question # poll.question
         THEN {"question"} ELSE {})
        \cup (IF U.is_public # << >> /\ U.is_public[1] # poll.is_public
              THEN {"is_public"} ELSE {})
        \cup (IF /\ U.allow_multiple_selections # << >>
                 /\ U.allow_multiple_selections[1] # poll.allow_multiple_selections
              THEN {"allow_multiple_selections"} ELSE {})
RenamesKnown ==
    \A i \in 1..Len(U.options_to_update) : U.options_to_update[i].id \in Surviving
TextChanges ==
    {i \in 1..Len(U.options_to_update) :
        /\ U.options_to_update[i].id \in OptionsOf(P, R.poll_id)
        /\ U.options_to_update[i].text # Text(P, U.options_to_update[i].id)}
EffectiveChange ==
    \/ ScalarChanges # {} \/ TextChanges # {}
    \/ U.option_ids_to_remove # << >> \/ U.options_to_add # << >>

\* C16: a successful updatePoll advances the poll's update timestamp if and only
\* if the request holds at least one effective change; an update without any
\* (every supplied value equal to the current one) succeeds, writes no history
\* row and leaves the store, timestamp included, as it was.
C16_TimestampIffChange ==
    /\ (Updating /\ A.code = "ok")
        => /\ db.poll[R.poll_id].updated_at > P.poll[R.poll_id].updated_at
                <=> EffectiveChange
           /\ db.poll[R.poll_id].updated_at >= P.poll[R.poll_id].updated_at
    /\ (Updating /\ ~EffectiveChange /\ RenamesKnown /\ R.fail = "none")
        => A.code = "ok" /\ NewHistory = {} /\ db = P

\* an update that supplies the current question and an option's current text
C16_Witness ==
    /\ Updating /\ A.code = "ok" /\ ~EffectiveChange /\ db = P
    /\ U.question # None \/ U.options_to_update # << >>

\* the number of renames of the list that assign a text other than the one the
\* option has when its turn comes (cur: option id -> text)
RECURSIVE TextUpdates(_, _)
TextUpdates(updates, cur) ==
    IF updates = << >> THEN 0
    ELSE LET u == Head(updates)
         IN  IF cur[u.id] = u.text THEN TextUpdates(Tail(updates), cur)
             ELSE 1 + TextUpdates(Tail(updates), [cur EXCEPT ![u.id] = u.text])

\* C17: a successful updatePoll writes exactly one history entry per effective
\* change: one per removed option, one per rename whose new text differs from
\* the option's current text, one per added option, and one per scalar field
\* (question, is_public, allow_multiple_selections) whose supplied value differs
\* from the stored one; it writes no other entry.
C17_OneEntryPerChange ==
    (Updating /\ A.code = "ok")
    => /\ Cardinality(NewEntries("option_removed")) = Len(U.option_ids_to_remove)
       /\ Cardinality(NewEntries("option_added")) = Len(U.options_to_add)
       /\ Cardinality(NewEntries("option_text_updated"))
            = TextUpdates(U.options_to_update,
                          [o \in OptionsOf(P, R.poll_id) |-> Text(P, o)])
       /\ \A f \in {"question", "is_public", "allow_multiple_selections"} :
             Cardinality(NewEntries(f)) = IF f \in ScalarChanges THEN 1 ELSE 0
       /\ Cardinality(NewHistory)
            = Len(U.option_ids_to_remove) + Len(U.options_to_add)
              + TextUpdates(U.options_to_update,
                            [o \in OptionsOf(P, R.poll_id) |-> Text(P, o)])
              + Cardinality(ScalarChanges)

\* an update that wrote two entries while a supplied value equal to the
\* stored one wrote none
C17_Witness ==
    /\ Updating /\ A.code = "ok" /\ Cardinality(NewHistory) = 2
    /\ \/ U.is_public # << >> /\ NewEntries("is_public") = {}
       \/ U.question # None /\ NewEntries("question") = {}
       \/ U.allow_multiple_selections # << >>
            /\ NewEntries("allow_multiple_selections") = {}

\* R's valid removals name an option whose text, but for the letter case, is
\* the new text of R's one rename, of a surviving option, and no surviving
\* option has that text
RenameToRemovedText ==
    /\ OneRename /\ U.options_to_add = << >>
    /\ \E o \in Elems(U.option_ids_to_remove) :
          Lower(Text(P, o)) = Lower(U.options_to_update[1].text)
    /\ \A o \in Surviving : Lower(Text(P, o)) # Lower(U.options_to_update[1].text)

\* R's valid removals name the option of R's first rename
RenameOfRemoved ==
    /\ Updating /\ RemovalsValid /\ U.options_to_update # << >>
    /\ U.options_to_update[1].id \in Elems(U.option_ids_to_remove)

\* C18: renames are checked against the option set left by the removals: a
\* rename of B to the text of A, where A has no ballots and is removed by the
\* same request, succeeds; a rename of an option that the same request removes
\* fails with InvalidRequest.
C18_RenameAfterRemovals ==
    /\ (RenameToRemovedText /\ R.fail = "none")
        => /\ A.code = "ok"
           /\ Text(db, U.options_to_update[1].id) = U.options_to_update[1].text
    /\ RenameOfRemoved => A.code = "INVALID_REQUEST" /\ db = P

\* R removes options validly, renames nothing, and adds options whose texts
\* collide neither with a surviving option's nor with each other's
RemoveAndAdd ==
    /\ Updating /\ RemovalsValid
    /\ U.option_ids_to_remove # << >> /\ U.options_to_add # << >>
    /\ U.options_to_update = << >>
    /\ \A i \in 1..Len(U.options_to_add) :
          /\ \A o \in Surviving : Lower(Text(P, o)) # Lower(U.options_to_add[i])
          /\ \A j \in 1..Len(U.options_to_add) :
                i < j => Lower(U.options_to_add[i]) # Lower(U.options_to_add[j])

\* the options of the poll that the request created
AddedOptions == OptionsOf(db, R.poll_id) \ DOMAIN P.poll_option

\* C19: an updatePoll that removes an option without ballots and adds a new
\* option, also one with the removed option's text, succeeds: afterwards the
\* poll holds the added option with zero votes and not the removed one, and the
\* history has gained one option_removed and one option_added entry.
C19_RemoveAndAddSucceeds ==
    (RemoveAndAdd /\ R.fail = "none")
    => /\ A.code = "ok"
       /\ Elems(U.option_ids_to_remove) \cap OptionsOf(db, R.poll_id) = {}
       /\ {Text(db, o) : o \in AddedOptions} = Elems(U.options_to_add)
       /\ \A o \in AddedOptions : Votes(db, o) = 0 /\ Ballots(db, o) = 0
       /\ Cardinality(NewEntries("option_removed")) = Len(U.option_ids_to_remove)
       /\ Cardinality(NewEntries("option_added")) = Len(U.options_to_add)

\* R's removals are valid and R holds at most one rename, which the rename
\* step accepts, so that the add step is reached; R adds something
AddReached ==
    /\ Updating /\ RemovalsValid /\ U.options_to_add # << >>
    /\ Len(U.options_to_update) <= 1
    /\ \A i \in 1..Len(U.options_to_update) :
          /\ U.options_to_update[i].id \in Surviving
          /\ \A o \in Surviving \ {U.options_to_update[i].id} :
                Lower(Text(P, o)) # Lower(U.options_to_update[i].text)

\* the lowered texts of the options that survive R's removals, after R's rename
TextsAfterRenames ==
    {Lower(IF \E i \in 1..Len(U.options_to_update) : U.options_to_update[i].id = o
           THEN U.options_to_update[1].text ELSE Text(P, o)) : o \in Surviving}

\* some text R adds equals, but for the letter case, one of those or a text R
\* adds earlier
AddCollides ==
    \E i \in 1..Len(U.options_to_add) :
        \/ Lower(U.options_to_add[i]) \in TextsAfterRenames
        \/ \E j \in 1..(i - 1) : Lower(U.options_to_add[j]) = Lower(U.options_to_add[i])

\* the response is DuplicateOptionText raised by the add step
AddRejected == A.code = "DUPLICATE_OPTION_TEXT" /\ A.detail = "on_add"

\* C20: an added option is rejected with DuplicateOptionText when (and only
\* when) its text equals case-insensitively the text of an option that survives
\* the request's removals and renames, or of an option added earlier in the
\* same request; an added option that is accepted starts with votes 0 and no
\* ballots.
C20_AddDuplicateRejected ==
    AddReached
    => /\ AddRejected <=> AddCollides
       /\ AddRejected => db = P
       /\ A.code = "ok"
            => /\ Cardinality(AddedOptions) = Len(U.options_to_add)
               /\ {Text(db, o) : o \in AddedOptions} = Elems(U.options_to_add)
               /\ \A o \in AddedOptions : Votes(db, o) = 0 /\ Ballots(db, o) = 0

\* an addition rejected for the text a rename of the same request has given
\* to an option
C20_Witness ==
    /\ AddReached /\ AddRejected /\ Len(U.options_to_update) = 1
    /\ Lower(U.options_to_add[1]) = Lower(U.options_to_update[1].text)
    /\ U.options_to_add[1] # U.options_to_update[1].text

\* --------------------------------- claims about failures, codes and deletion
\* C21: when updatePoll fails with any error, the committed store is as before
\* the request: the poll's question, flags and update timestamp, its options
\* and their texts, and its history.
C21_FailedUpdateChangesNothing ==
    (Done("update") /\ A.code # "ok") => db = P

\* the modification code the request R presents
Presented == IF R.op = "update" THEN R.data.modification_code ELSE R.modification_code

\* C22: updatePoll and deletePoll on an existing poll with a modification code
\* other than the stored one fail with InvalidCapability and change nothing;
\* on a poll id that does not exist both report NotFound, whatever the code.
C22_CodeGatesMutation ==
    (Done("update") \/ Done("delete"))
    => /\ R.poll_id \notin DOMAIN P.poll
            => A.code = "POLL_NOT_FOUND" /\ db = P
       /\ ( /\ R.poll_id \in DOMAIN P.poll
            /\ P.poll[R.poll_id].modification_code # Presented )
            => A.code = "INVALID_MODIFICATION_CODE" /\ db = P

\* a delete of a poll that has a ballot, refused for presenting the code of
\* the other poll
C22_Witness ==
    /\ Done("delete") /\ R.poll_id \in DOMAIN P.poll
    /\ \E other \in (DOMAIN P.poll) \ {R.poll_id} :
          P.poll[other].modification_code = Presented
    /\ VotesOf(P, R.poll_id) # {}
    /\ A.code = "INVALID_MODIFICATION_CODE" /\ db = P

\* pid was given to a poll (by the pid-th uuid4 of create_poll) and the store
\* g, d holds no poll with it: the poll was deleted
GoneIn(d, g, pid) ==
    /\ \E n \in 1..g.polls : PollId(n) = pid
    /\ pid \notin DOMAIN d.poll
Gone(pid) == GoneIn(db, gen, pid)

\* the operations of the claim that name a poll
OnPoll == {"get", "history", "vote", "update", "delete"}

\* C23: after deletePoll succeeds for a poll id the id has no poll, and from
\* then on it never has one again and every getPoll, getEditHistory, castVote,
\* updatePoll and deletePoll on it reports NotFound.
C23_DeletedStaysNotFound ==
    [][ /\ (Done("delete") /\ A.code = "ok") => Gone(R.poll_id)
        /\ \A pid \in PollIds :
              Gone(pid)
              => /\ Gone(pid)'
                 /\ ( /\ pc["w1"] = "idle" /\ pc'["w1"] = "done"
                      /\ req'["w1"].op \in OnPoll /\ req'["w1"].poll_id = pid )
                    => /\ resp'["w1"].code = "POLL_NOT_FOUND"
                       /\ db' = db ]_vars

\* the history of a deleted poll asked for while another poll exists
C23_Witness ==
    /\ Done("history") /\ GoneIn(P, G, R.poll_id)
    /\ DOMAIN P.poll # {}
    /\ A.code = "POLL_NOT_FOUND"

\* the rows of table t that do not belong to poll pid
RowsOfOthers(t, pid) == Restrict(t, {x \in DOMAIN t : t[x].poll_id # pid})

\* C24: every option, ballot and history entry belongs to a poll that exists,
\* and every ballot references an existing option of its own poll; a
\* deletePoll that succeeds removes the poll with all its options, ballots and
\* history entries and leaves every row of every other poll as it was.
C24_PollOwnsItsRows ==
    /\ \A o \in DOMAIN db.poll_option : db.poll_option[o].poll_id \in DOMAIN db.poll
    /\ \A h \in DOMAIN db.poll_edit_history :
          db.poll_edit_history[h].poll_id \in DOMAIN db.poll
    /\ \A v \in DOMAIN db.individual_vote :
          /\ db.individual_vote[v].poll_id \in DOMAIN db.poll
          /\ db.individual_vote[v].option_id \in DOMAIN db.poll_option
          /\ db.poll_option[db.individual_vote[v].option_id].poll_id
                = db.individual_vote[v].poll_id
    /\ (Done("delete") /\ A.code = "ok")
        => /\ R.poll_id \notin DOMAIN db.poll
           /\ OptionsOf(db, R.poll_id) = {} /\ VotesOf(db, R.poll_id) = {}
           /\ HistoryOf(db, R.poll_id) = {}
           /\ db.poll = Without(P.poll, {R.poll_id})
           /\ db.poll_option = RowsOfOthers(P.poll_option, R.poll_id)
           /\ db.individual_vote = RowsOfOthers(P.individual_vote, R.poll_id)
           /\ db.poll_edit_history = RowsOfOthers(P.poll_edit_history, R.poll_id)

\* a poll deleted with its options, a ballot and a history entry while the
\* other poll has options and a ballot
C24_Witness ==
    /\ Done("delete") /\ A.code = "ok"
    /\ OptionsOf(P, R.poll_id) # {} /\ VotesOf(P, R.poll_id) # {}
    /\ HistoryOf(P, R.poll_id) # {}
    /\ db.poll_option # EmptyTable /\ db.individual_vote # EmptyTable

\* C25: verifyModificationCode returns true if and only if the poll exists and
\* its stored modification code equals the candidate exactly, letter case
\* included; it returns false for a missing poll and for another code, and it
\* changes no state.
C25_VerifyExactCode ==
    /\ \A pid \in PollIds, code \in CandidateCodes :
          /\ pid \notin DOMAIN db.poll => ~verify_modification_code(db, pid, code)
          /\ pid \in DOMAIN db.poll
                => (verify_modification_code(db, pid, code)
                        <=> db.poll[pid].modification_code = code)
    /\ Done("verify")
        => /\ db = P /\ gen = G
           /\ A.code = "ok"
                <=> /\ R.poll_id \in DOMAIN P.poll
                    /\ P.poll[R.poll_id].modification_code = R.modification_code
           /\ A.code = "ok" => A.rows = TRUE
           /\ A.code = "INVALID_MODIFICATION_CODE" => A.rows = FALSE

\* the code of an existing poll presented in another letter case, refused
C25_Witness ==
    /\ Done("verify") /\ R.poll_id \in DOMAIN P.poll
    /\ R.modification_code = "code0001"
    /\ P.poll[R.poll_id].modification_code = "Code0001"
    /\ A.code = "INVALID_MODIFICATION_CODE" /\ A.rows = FALSE

\* ----------------------------------------------- claims about the history
\* the history rows of the store before R that referenced an option R removes
ReferencedRemoved ==
    {h \in DOMAIN P.poll_edit_history :
        P.poll_edit_history[h].option_id_changed \in Elems(U.option_ids_to_remove)}

\* C26: the option reference of every history entry is null or the id of an
\* existing option of the entry's poll; after an updatePoll that removes
\* options, every entry that referenced one of them is still there with its
\* reference null and its other fields unchanged, and so is the option_removed
\* entry the removal wrote.
C26_HistoryReferenceWeak ==
    /\ \A h \in DOMAIN db.poll_edit_history :
          LET ref == db.poll_edit_history[h].option_id_changed
          IN  \/ ref = NoId
              \/ /\ ref \in DOMAIN db.poll_option
                 /\ db.poll_option[ref].poll_id = db.poll_edit_history[h].poll_id
    /\ (Updating /\ A.code = "ok")
        => /\ \A h \in ReferencedRemoved :
                 /\ h \in DOMAIN db.poll_edit_history
                 /\ db.poll_edit_history[h]
                      = [P.poll_edit_history[h] EXCEPT !.option_id_changed = NoId]
           /\ \A o \in Elems(U.option_ids_to_remove) :
                 \E h \in NewEntries("option_removed") :
                    /\ db.poll_edit_history[h].old_value = Text(P, o)
                    /\ db.poll_edit_history[h].option_id_changed = NoId

\* an option removed that an earlier history entry referenced
C26_Witness ==
    /\ Updating /\ A.code = "ok" /\ U.option_ids_to_remove # << >>
    /\ ReferencedRemoved # {}
    /\ NewEntries("option_removed") # {}

\* the history rows of the store before R whose poll still exists
KeptHistory ==
    {h \in DOMAIN P.poll_edit_history :
        P.poll_edit_history[h].poll_id \in DOMAIN db.poll}

\* C27: a poll's edit history is append-only until the poll is deleted: a
\* request adds entries only if it is an updatePoll that succeeds with an
\* effective change, and no request removes an entry of a poll that still
\* exists or changes its field tag, old value or new value.
C27_HistoryAppendOnly ==
    pc["w1"] = "done"
    => /\ NewHistory # {}
            => Done("update") /\ A.code = "ok" /\ EffectiveChange
       /\ \A h \in KeptHistory :
             /\ h \in DOMAIN db.poll_edit_history
             /\ db.poll_edit_history[h].field_changed
                  = P.poll_edit_history[h].field_changed
             /\ db.poll_edit_history[h].old_value = P.poll_edit_history[h].old_value
             /\ db.poll_edit_history[h].new_value = P.poll_edit_history[h].new_value
       /\ (DOMAIN P.poll_edit_history) \ (DOMAIN db.poll_edit_history) # {}
            => Done("delete") /\ A.code = "ok"

\* ------------------------------------------------ claims about create_poll
\* the polls of the store that the request R created
CreatedPolls == (DOMAIN db.poll) \ (DOMAIN P.poll)

\* C28: createPoll is atomic: whatever its outcome, a poll it has left in the
\* committed store has its complete initial option set.
C28_CreateIsAtomic ==
    Done("create")
    => \A pid \in CreatedPolls :
          /\ Cardinality(OptionsOf(db, pid)) = Len(R.data.options)
          /\ {Text(db, o) : o \in OptionsOf(db, pid)} = Elems(R.data.options)

\* ----------------------------------------------------- claims about reads
\* whether a poll with this id was in the store before R
ExistedBefore(pid) == pid \in DOMAIN P.poll

\* C29: getPollsByIds returns the polls that exist among the requested ids,
\* one per requested id and in the order of the request, leaves out the ids of
\* missing and deleted polls, and changes no state.
C29_SavedPollsInRequestOrder ==
    Done("saved")
    => /\ A.code = "ok"
       /\ A.rows = SelectSeq(R.poll_ids, ExistedBefore)
       /\ db = P /\ gen = G

\* two existing polls asked for in the reverse of the order of their creation
C29_Witness ==
    /\ Done("saved") /\ Len(R.poll_ids) = 2
    /\ R.poll_ids[1] > R.poll_ids[2]
    /\ \A i \in 1..2 : R.poll_ids[i] \in DOMAIN P.poll
    /\ A.rows = R.poll_ids

\* ------------------------------------ claims about options of other polls
\* the first option id R's update looks up is not an option of the poll
NamesForeignOption ==
    /\ Updating
    /\ \/ /\ U.option_ids_to_remove # << >>
          /\ U.option_ids_to_remove[1] \notin OptionsOf(P, R.poll_id)
       \/ /\ U.option_ids_to_remove = << >> /\ U.options_to_update # << >>
          /\ U.options_to_update[1].id \notin OptionsOf(P, R.poll_id)

\* C30: an updatePoll that names, for removal or for rename, an option id that
\* is not an option of the target poll (also the id of an option of another
\* poll) fails with InvalidRequest and changes no poll.
C30_ForeignOptionIsInvalidRequest ==
    NamesForeignOption => A.code = "INVALID_REQUEST" /\ db = P

\* ---------------------------------------------- claims about recast votes
\* the session of the vote request R as it reached the loop over the previous
\* votes (its reads taken from the store the request started from)
VoteRun == VoteSteps(P, G, VoteSession(R.poll_id, R.selected_options, R.cookie))
\* the vote request R reached the loop with previous votes to remove
RemovesPrevious ==
    Done("vote") /\ VoteRun.resp = NoResponse /\ DOMAIN VoteRun.prev # {}
\* the previous votes of the request that reference option o
PreviousOn(o) == {v \in DOMAIN VoteRun.prev : VoteRun.prev[v] = o}

\* C32: when requests are handled one at a time, the floor of the decrement is
\* never exercised: whenever a vote request removes previous ballots, the
\* option of each one exists and its counter is at least the number of ballots
\* removed from it, so every decrement starts from a counter of at least 1.
C32_FloorNeverExercised ==
    RemovesPrevious
    => \A v \in DOMAIN VoteRun.prev :
          /\ VoteRun.prev[v] \in DOMAIN P.poll_option
          /\ VoteRun.prev[v] \in DOMAIN VoteRun.orig
          /\ Votes(P, VoteRun.prev[v]) >= Cardinality(PreviousOn(VoteRun.prev[v]))

\* a recast on a multi-select poll that removed two ballots, each the only one
\* of its option
C32_Witness ==
    /\ RemovesPrevious /\ A.code = "ok"
    /\ Cardinality(DOMAIN VoteRun.prev) = 2
    /\ \A v \in DOMAIN VoteRun.prev : Votes(P, VoteRun.prev[v]) = 1
    /\ (DOMAIN VoteRun.prev) \cap (DOMAIN db.individual_vote) = {}

\* the tokens of the rows of individual_vote on poll pid
TokensOn(d, pid) == {d.individual_vote[v].voter_token : v \in VotesOf(d, pid)}

\* C33: in every reachable state, on every poll whose allow_multiple_selections
\* is false each voter token holds at most one ballot, also after an update
\* switched the poll from multi-select to single-select while a token held
\* several ballots on it.
C33_SingleSelectOneBallot ==
    \A pid \in DOMAIN db.poll :
        ~db.poll[pid].allow_multiple_selections
        => \A tok \in TokensOn(db, pid) :
              Cardinality(VotesOfToken(db, pid, tok)) <= 1

\* no id occurs twice in the sequence
Distinct(seq) == \A i, j \in 1..Len(seq) : i < j => seq[i] # seq[j]

\* the vote request R passes a token and selects exactly the options the token
\* holds ballots on, and the store does not fail
SameSelectionRecast ==
    /\ Done("vote") /\ R.fail = "none"
    /\ R.poll_id \in DOMAIN P.poll
    /\ Truthy(PassedToken)
    /\ VotesOfToken(P, R.poll_id, PassedToken) # {}
    /\ TokenOptions(P, R.poll_id, PassedToken) = Elems(R.selected_options)
    /\ Distinct(R.selected_options)

\* C34: a recast with the same token and the same selection as the token's
\* current ballots succeeds and is idempotent: every option's counter and the
\* token's set of ballots are the same after it as before.
C34_SameRecastIdempotent ==
    SameSelectionRecast
    => /\ A.code = "ok"
       /\ \A o \in DOMAIN P.poll_option :
             o \in DOMAIN db.poll_option /\ Votes(db, o) = Votes(P, o)
       /\ TokenOptions(db, R.poll_id, PassedToken)
             = TokenOptions(P, R.poll_id, PassedToken)

\* the vote request R lists some id more than once
ListsTwice == Done("vote") /\ ~Distinct(R.selected_options)

\* C35: a vote request whose selection lists the same option id more than once
\* never commits anything: it fails and the store is as before (no ballot added
\* or removed, no counter changed); when the ids listed are options of the poll
\* the failure is InvalidVote on a single-select poll and the persistence error
\* of the commit on a multi-select poll.
C35_RepeatedIdCommitsNothing ==
    ListsTwice
    => /\ A.code # "ok"
       /\ db = P
       /\ ( /\ R.poll_id \in DOMAIN P.poll
            /\ Elems(R.selected_options) \subseteq OptionsOf(P, R.poll_id) )
          => A.code = IF P.poll[R.poll_id].allow_multiple_selections
                      THEN "DB_VOTE_ERROR" ELSE "INVALID_VOTE"

\* a token that holds a ballot on b lists a twice on a multi-select poll, and
\* the store accepts whatever reaches it
C35_Witness ==
    /\ ListsTwice /\ R.fail = "none" /\ A.code = "DB_VOTE_ERROR"
    /\ P.poll[R.poll_id].allow_multiple_selections
    /\ Truthy(PassedToken)
    /\ VotesOfToken(P, R.poll_id, PassedToken) # {}
    /\ TokenOptions(P, R.poll_id, PassedToken) \cap Elems(R.selected_options) = {}

\* ----------------------------------------------------- claims about frames
\* the options the update request R renamed
Renamed ==
    {o \in (DOMAIN P.poll_option) \cap (DOMAIN db.poll_option) :
        Text(db, o) # Text(P, o)}

\* C37: an update request never changes a poll's modification code, voting
\* security level or creator name, never changes the votes counter of an option
\* that survives it and never adds or removes a ballot; a renamed option keeps
\* its votes and its ballots.
C37_UpdateFrame ==
    Done("update")
    => /\ \A pid \in DOMAIN P.poll :
             /\ pid \in DOMAIN db.poll
             /\ db.poll[pid].modification_code = P.poll[pid].modification_code
             /\ db.poll[pid].voting_security_level = P.poll[pid].voting_security_level
             /\ db.poll[pid].creator_display_name = P.poll[pid].creator_display_name
       /\ db.individual_vote = P.individual_vote
       /\ \A o \in (DOMAIN P.poll_option) \cap (DOMAIN db.poll_option) :
             /\ Votes(db, o) = Votes(P, o)
             /\ db.poll_option[o].poll_id = P.poll_option[o].poll_id
       /\ \A o \in Renamed : VotesOnOption(db, o) = VotesOnOption(P, o)

\* an update that renamed the option holding the poll's ballot
C37_Witness ==
    /\ Updating /\ A.code = "ok"
    /\ \E o \in Renamed : Votes(P, o) = 1 /\ Ballots(db, o) = 1

\* the rows of individual_vote that are not on poll pid
VotesElsewhere(d, pid) ==
    Restrict(d.individual_vote,
             {v \in DOMAIN d.individual_vote : d.individual_vote[v].poll_id # pid})
\* the options that are not options of poll pid
OptionsElsewhere(d, pid) ==
    Restrict(d.poll_option,
             {o \in DOMAIN d.poll_option : d.poll_option[o].poll_id # pid})

\* C38: a vote request on a poll changes only that poll's ballots and that
\* poll's option counters: the ballots and the options of every other poll are
\* as before, also when the request's token holds ballots on other polls, and
\* every poll's row (question, flags, modification code), every option's text
\* and poll, and the edit history are as before.
C38_VoteFrame ==
    Done("vote")
    => /\ VotesElsewhere(db, R.poll_id) = VotesElsewhere(P, R.poll_id)
       /\ OptionsElsewhere(db, R.poll_id) = OptionsElsewhere(P, R.poll_id)
       /\ db.poll = P.poll
       /\ db.poll_edit_history = P.poll_edit_history
       /\ DOMAIN db.poll_option = DOMAIN P.poll_option
       /\ \A o \in DOMAIN P.poll_option :
             /\ Text(db, o) = Text(P, o)
             /\ db.poll_option[o].poll_id = P.poll_option[o].poll_id

\* a vote that succeeded on a poll with an edit history, under a token that
\* holds a ballot on the other poll
C38_Witness ==
    /\ Done("vote") /\ A.code = "ok" /\ Truthy(R.cookie)
    /\ HistoryOf(P, R.poll_id) # {}
    /\ \E v \in DOMAIN VotesElsewhere(db, R.poll_id) :
          db.individual_vote[v].voter_token = R.cookie
    /\ VotesOfToken(db, R.poll_id, R.cookie) # {}

\* ------------------------------------ claims about concurrent requests
\* the vote request of w1 and the update request of w2 have both finished, the
\* vote selecting option o and the update naming o for removal
VoteAndRemoval(o) ==
    /\ pc["w1"] = "done" /\ pc["w2"] = "done"
    /\ req["w1"].op = "vote" /\ req["w2"].op = "update"
    /\ req["w1"].selected_options = <<o>>
    /\ req["w2"].data.option_ids_to_remove = <<o>>

\* C31: when an update that removes option o runs concurrently with a vote
\* that selects o, no committed state holds a ballot that references an option
\* that no longer exists, no option with a committed ballot is removed, and at
\* most one of the two requests takes effect on o: a vote that succeeded left
\* its ballot on an o that still exists, a removal that succeeded left no o and
\* no ballot on it.
C31_RemovalVoteRace ==
    /\ \A v \in DOMAIN db.individual_vote :
          db.individual_vote[v].option_id \in DOMAIN db.poll_option
    /\ \A o \in 1..db.option_seq :
          VoteAndRemoval(o)
          => /\ ~(resp["w1"].code = "ok" /\ resp["w2"].code = "ok")
             /\ resp["w1"].code = "ok"
                   => o \in DOMAIN db.poll_option /\ VotesOnOption(db, o) # {}
             /\ resp["w2"].code = "ok" => o \notin DOMAIN db.poll_option

\* the update lost the race: it had loaded o without votes, the vote committed
\* its ballot on o, and the update's commit failed
C31_Witness ==
    \E o \in 1..db.option_seq :
        /\ VoteAndRemoval(o)
        /\ sess["w2"].work.resp = NoResponse
        /\ resp["w1"].code = "ok"
        /\ resp["w2"].code = "DB_UPDATE_POLL_ERROR"
        /\ Cardinality(VotesOnOption(db, o)) = 1

\* both workers have finished a vote request on the same single-select poll
\* with the same token in the cookie and different selections
SameTokenVotes ==
    /\ pc["w1"] = "done" /\ pc["w2"] = "done"
    /\ req["w1"].op = "vote" /\ req["w2"].op = "vote"
    /\ req["w1"].poll_id = req["w2"].poll_id
    /\ req["w1"].poll_id \in DOMAIN db.poll
    /\ ~db.poll[req["w1"].poll_id].allow_multiple_selections
    /\ Truthy(req["w1"].cookie) /\ req["w1"].cookie = req["w2"].cookie
    /\ req["w1"].selected_options # req["w2"].selected_options

\* C36: when two vote requests with the same voter token on the same
\* single-select poll select different options, after both have finished the
\* token holds at most one ballot on the poll and every option's counter equals
\* its number of ballots.
C36_SameTokenRace ==
    SameTokenVotes
    => /\ Cardinality(VotesOfToken(db, req["w1"].poll_id, req["w1"].cookie)) <= 1
       /\ \A o \in OptionsOf(db, req["w1"].poll_id) : Votes(db, o) = Ballots(db, o)

====
